---- MODULE Spec2Model ----
(***************************************************************************)
(* Catalog synchronisation engine of the i18n auto translator:             *)
(* FileComparator (diff), TranslationUpdater (merge, backup, write,        *)
(* restore), Validator (structure and placeholder checks) and the          *)
(* translate command that sequences them.                                  *)
(*                                                                         *)
(* A JSON value is a node [t, v, kids]: t is the JavaScript kind           *)
(* ("object", "string", "number", "boolean", "array", "null"), v the text  *)
(* of a leaf, kids the entries of an object in insertion order.  A text    *)
(* is the sequence of its pieces: "{", "}" and the brace-free runs between *)
(* them.  A catalog (a JavaScript object) is the sequence of its entries   *)
(* [k, n].  A file is [st, cat]: absent, json (cat is the document it      *)
(* parses to) or garbage (text JSON.parse rejects); the Validator also     *)
(* tells an empty file and a document whose root is not an object.         *)
(***************************************************************************)
EXTENDS Integers, Sequences, FiniteSets, TLC

VARIABLES
    mBase,        \* SpecMerge: existing target catalog given to updateTranslations
    mIncoming,    \* SpecMerge: newTranslations
    mOverwrite,   \* SpecMerge: options.overwriteExisting
    mResult,      \* SpecMerge: [done, cat] the merged catalog (updatedContent)
    mAgain,       \* SpecMerge: [done, cat] the same update applied to the merged catalog
    mDiff,        \* SpecMerge: [done, ref, r] compare of a reference with the merged catalog
    pRef,         \* SpecPlaceholders: referenceText
    pTrans,       \* SpecPlaceholders: translatedText
    pResult,      \* SpecPlaceholders: [done, r] what validatePlaceholderConsistency did
    cRef,         \* SpecCompare: parsed reference file
    cTarget,      \* SpecCompare: [exists, cat] the target file
    cResult,      \* SpecCompare: [done, r, keys] the record compare returns, the Set
                  \* extractKeys returned for the reference
    vRef,         \* SpecValidator: the reference file
    vTarget,      \* SpecValidator: the target file
    validator,    \* SpecValidator: [errors, warnings] of the Validator object
    vResult,      \* SpecValidator: [op, file, r] the last validation and the result it returned
    vCalls,       \* SpecValidator: number of calls made on the Validator
    api,          \* SpecRetry: one translateCompleteFile call: its makeApiRequest
                  \* recursion and the responses it was given
    cfg,          \* [backupEnabled, dryRun, skipValidation, dryRunOption]:
                  \* BACKUP_ENABLED, DRY_RUN, --skip-validation, --dry-run
    cmd,          \* [name, overwriteExisting]: the entry point called and its options
    files,        \* the locales directory: language code -> file
    backups,      \* the backup directory: set of [ts, lang, data]
    now,          \* the clock, in seconds
    pc,           \* position of the running command
    queue,        \* the languages the running loop iterates over
    idx,          \* index of the current language in queue
    frame,        \* locals of the running updateTranslations / updateCompleteTranslations
    results,      \* language code -> entry of the result map
    report,       \* counts of generateFinalReport
    before,       \* history: the files when the command started
    log,          \* history: language code -> events of the command for it
    runs          \* number of commands started on the directory

mergeVars == <<mBase, mIncoming, mOverwrite, mResult, mAgain, mDiff>>
cmpVars == <<cRef, cTarget, cResult>>
phVars == <<pRef, pTrans, pResult>>
valVars == <<vRef, vTarget, validator, vResult, vCalls>>
apiVars == <<api>>
pureVars == <<mergeVars, cmpVars, phVars, valVars, apiVars>>
runVars == <<cfg, cmd, files, backups, now, pc, queue, idx, frame, results, report, before, log>>

-----------------------------------------------------------------------------
(* JSON values *)

Str(text) == [t |-> "string", v |-> text, kids |-> <<>>]
Obj(entries) == [t |-> "object", v |-> <<>>, kids |-> entries]
NullValue == [t |-> "null", v |-> <<>>, kids |-> <<>>]

\* typeof value
TypeOf(node) == IF node.t \in {"object", "array", "null"} THEN "object" ELSE node.t
Entry(key, node) == [k |-> key, n |-> node]

NumberValue == [t |-> "number", v |-> <<"5">>, kids |-> <<>>]
BooleanValue == [t |-> "boolean", v |-> <<"true">>, kids |-> <<>>]

\* the array ["X"]: its entries are its indices
ArrayValue == [t |-> "array", v |-> <<>>, kids |-> <<Entry("0", Str(<<"X">>))>>]

\* value && typeof value === 'object' && !Array.isArray(value)
IsPlainObject(node) == node.t = "object"

\* key in obj
HasKey(obj, key) == \E i \in 1..Len(obj) : obj[i].k = key

\* obj[key], for a key the object has
GetKey(obj, key) == obj[CHOOSE i \in 1..Len(obj) : obj[i].k = key].n

\* variant that pushes the entry as onto an array
SetKeyPush(obj, key, node) == Append(obj, [k |-> key, n |-> node])

\* obj[key] = node: an existing key keeps its place, a new key goes last
SetKey(obj, key, node) ==
    IF HasKey(obj, key)
    THEN [i \in 1..Len(obj) |-> IF obj[i].k = key THEN Entry(key, node) ELSE obj[i]]
    ELSE Append(obj, Entry(key, node))

SeqToSet(s) == {s[i] : i \in 1..Len(s)}

\* Set.prototype.add on a Set kept as a duplicate-free sequence in insertion order
SetAdd(s, x) == IF x \in SeqToSet(s) THEN s ELSE Append(s, x)

RECURSIVE SetAddAll(_, _)
SetAddAll(s, xs) == IF xs = <<>> THEN s ELSE SetAddAll(SetAdd(s, Head(xs)), Tail(xs))

\* [...set].filter(pred) for pred = "is not in other"
RECURSIVE FilterNotIn(_, _)
FilterNotIn(s, other) ==
    IF s = <<>> THEN <<>>
    ELSE IF Head(s) \in SeqToSet(other)
         THEN FilterNotIn(Tail(s), other)
         ELSE <<Head(s)>> \o FilterNotIn(Tail(s), other)

-----------------------------------------------------------------------------
(* TranslationUpdater.deepMerge *)

RECURSIVE deepMerge(_, _)
RECURSIVE MergeLoop(_, _)

\* variant that merges into the keys the target has and adds none
MergeEntryExistingOnly(result, e) ==
    IF IsPlainObject(e.n) /\ HasKey(result, e.k) /\ IsPlainObject(GetKey(result, e.k))
    THEN SetKey(result, e.k, Obj(deepMerge(GetKey(result, e.k).kids, e.n.kids)))
    ELSE result

\* one iteration of the for-loop over Object.entries(source)
MergeEntry(result, e) ==
    IF IsPlainObject(e.n)
    THEN IF HasKey(result, e.k) /\ IsPlainObject(GetKey(result, e.k))
         THEN SetKey(result, e.k, Obj(deepMerge(GetKey(result, e.k).kids, e.n.kids)))
         ELSE SetKey(result, e.k, e.n)
    ELSE IF ~HasKey(result, e.k)
         THEN SetKey(result, e.k, e.n)
         ELSE result

MergeLoop(result, source) ==
    IF source = <<>> THEN result
    ELSE MergeLoop(MergeEntry(result, Head(source)), Tail(source))

deepMerge(target, source) == MergeLoop(target, source)

\* the wrong-way-round variant of the call in updateTranslations
MergeTranslationsSwapped(originalContent, newTranslations, overwriteExisting) ==
    IF overwriteExisting
    THEN deepMerge(newTranslations, originalContent)
    ELSE deepMerge(originalContent, newTranslations)

\* updateTranslations, "Merge translations"
MergeTranslations(originalContent, newTranslations, overwriteExisting) ==
    IF overwriteExisting
    THEN deepMerge(originalContent, newTranslations)
    ELSE deepMerge(newTranslations, originalContent)

-----------------------------------------------------------------------------
(* FileComparator.extractKeys and compare *)

JoinKey(prefix, key) == IF prefix = "" THEN key ELSE prefix \o "." \o key

RECURSIVE extractKeys(_, _)
RECURSIVE ExtractLoop(_, _, _)
RECURSIVE extractKeysLeavesOnly(_, _)
RECURSIVE extractKeysAllObjects(_, _)

\* variant that records the paths of leaves only, not of containers
extractKeysLeavesOnly(obj, prefix) ==
    IF obj = <<>> THEN <<>>
    ELSE LET e == Head(obj)
             fullKey == JoinKey(prefix, e.k)
             here == IF IsPlainObject(e.n)
                     THEN extractKeysLeavesOnly(e.n.kids, fullKey)
                     ELSE <<fullKey>>
         IN SetAddAll(here, extractKeysLeavesOnly(Tail(obj), prefix))

ExtractLoop(keys, obj, prefix) ==
    IF obj = <<>> THEN keys
    ELSE LET e == Head(obj)
             fullKey == JoinKey(prefix, e.k)
             added == SetAdd(keys, fullKey)
             withNested == IF IsPlainObject(e.n)
                           THEN SetAddAll(added, extractKeys(e.n.kids, fullKey))
                           ELSE added
         IN ExtractLoop(withNested, Tail(obj), prefix)

\* variant that descends into every value whose typeof is 'object' but null
extractKeysAllObjects(obj, prefix) ==
    IF obj = <<>> THEN <<>>
    ELSE LET e == Head(obj)
             fullKey == JoinKey(prefix, e.k)
             nested == IF e.n.t \in {"object", "array"}
                       THEN extractKeysAllObjects(e.n.kids, fullKey)
                       ELSE <<>>
         IN SetAddAll(SetAddAll(<<fullKey>>, nested),
                      extractKeysAllObjects(Tail(obj), prefix))

extractKeys(obj, prefix) == ExtractLoop(<<>>, obj, prefix)

\* a JavaScript number: NaN or an integer
Num(i) == [nan |-> FALSE, val |-> i]
NaN == [nan |-> TRUE, val |-> 0]

\* Math.round(((refSize - missingSize) / refSize) * 100); 0 / 0 is NaN
CompletionPercentage(refSize, missingSize) ==
    IF refSize = 0 THEN NaN
    ELSE Num((200 * (refSize - missingSize) + refSize) \div (2 * refSize))

\* compare(referencePath, targetPath) on the parsed reference and the target
\* file, which reads as {} when it does not exist
compare(reference, targetFile) ==
    LET target == IF targetFile.exists THEN targetFile.cat ELSE <<>>
        referenceKeys == extractKeys(reference, "")
        targetKeys == extractKeys(target, "")
        missingKeys == FilterNotIn(referenceKeys, targetKeys)
        extraKeys == FilterNotIn(targetKeys, referenceKeys)
    IN [missingKeys |-> missingKeys,
        extraKeys |-> extraKeys,
        missingCount |-> Len(missingKeys),
        extraCount |-> Len(extraKeys),
        totalReferenceKeys |-> Len(referenceKeys),
        totalTargetKeys |-> Len(targetKeys),
        completionPercentage |-> CompletionPercentage(Len(referenceKeys), Len(missingKeys))]

-----------------------------------------------------------------------------
(* Files *)

AbsentFile == [st |-> "absent", cat |-> <<>>]
GarbageFile == [st |-> "garbage", cat |-> <<>>]

\* a file of white space only, and JSON whose root is not an object
EmptyFile == [st |-> "empty", cat |-> <<>>]
NonObjectFile == [st |-> "nonobject", cat |-> <<>>]

\* fs.writeFileSync(path, formatJson(obj)): the file then parses to obj
JsonFile(obj) == [st |-> "json", cat |-> obj]

-----------------------------------------------------------------------------
(* TranslationService.validateJsonStructure and
   TranslationUpdater.validateTranslationStructure *)

\* TranslationUpdater.extractAllKeys and TranslationService.extractAllKeys
extractAllKeys(obj, prefix) == extractKeys(obj, prefix)

\* variant that only looks for reference keys the translation lacks
validateJsonStructureMissingOnly(referenceJson, translatedJson) ==
    LET referenceKeys == extractAllKeys(referenceJson, "")
        translatedKeys == extractAllKeys(translatedJson, "")
        missingKeys == FilterNotIn(referenceKeys, translatedKeys)
    IN [isValid |-> missingKeys = <<>>,
        missingKeys |-> missingKeys,
        extraKeys |-> <<>>]

\* variant that only looks for keys the reference does not have
validateJsonStructureExtraOnly(referenceJson, translatedJson) ==
    LET referenceKeys == extractAllKeys(referenceJson, "")
        translatedKeys == extractAllKeys(translatedJson, "")
        extraKeys == FilterNotIn(translatedKeys, referenceKeys)
    IN [isValid |-> extraKeys = <<>>,
        missingKeys |-> <<>>,
        extraKeys |-> extraKeys]

validateJsonStructure(referenceJson, translatedJson) ==
    LET referenceKeys == extractAllKeys(referenceJson, "")
        translatedKeys == extractAllKeys(translatedJson, "")
        missingKeys == FilterNotIn(referenceKeys, translatedKeys)
        extraKeys == FilterNotIn(translatedKeys, referenceKeys)
    IN [isValid |-> missingKeys = <<>> /\ extraKeys = <<>>,
        missingKeys |-> missingKeys,
        extraKeys |-> extraKeys]

\* variant that only looks for keys the reference does not have
validateTranslationStructureExtraOnly(completeTranslations, referenceFile) ==
    IF referenceFile.st = "absent" THEN [threw |-> FALSE, isValid |-> TRUE]
    ELSE IF referenceFile.st = "garbage" THEN [threw |-> TRUE, isValid |-> FALSE]
    ELSE [threw |-> FALSE,
          isValid |-> validateJsonStructure(referenceFile.cat, completeTranslations).extraKeys = <<>>]

\* validateTranslationStructure(completeTranslations, null): the reference is
\* read from en_US.json when that file exists; [threw] when it does not parse
validateTranslationStructure(completeTranslations, referenceFile) ==
    IF referenceFile.st = "absent" THEN [threw |-> FALSE, isValid |-> TRUE]
    ELSE IF referenceFile.st = "garbage" THEN [threw |-> TRUE, isValid |-> FALSE]
    ELSE [threw |-> FALSE,
          isValid |-> validateJsonStructure(referenceFile.cat, completeTranslations).isValid]

-----------------------------------------------------------------------------
(* Validator: the errors and warnings each validation records *)

\* text.match(/\{[^}]+\}/g) || []
RECURSIVE MatchPlaceholders(_)
MatchPlaceholders(text) ==
    IF text = <<>> THEN <<>>
    ELSE IF /\ Head(text) = "{"
            /\ Len(text) >= 3
            /\ text[2] # "}"
            /\ \E j \in 3..Len(text) : text[j] = "}"
         THEN LET j == CHOOSE j \in 3..Len(text) :
                           text[j] = "}" /\ \A i \in 3..(j - 1) : text[i] # "}"
              IN <<SubSeq(text, 1, j)>> \o MatchPlaceholders(SubSeq(text, j + 1, Len(text)))
         ELSE MatchPlaceholders(Tail(text))

\* variant without the loop over the translation's placeholders
validatePlaceholderConsistencyMissingOnly(referenceText, translatedText) ==
    LET refPlaceholders == SetAddAll(<<>>, MatchPlaceholders(referenceText))
        transPlaceholders == SetAddAll(<<>>, MatchPlaceholders(translatedText))
        missing == FilterNotIn(refPlaceholders, transPlaceholders)
    IN IF missing # <<>>
       THEN [result |-> FALSE,
             errors |-> <<[message |-> "Missing placeholder", placeholder |-> Head(missing)]>>]
       ELSE [result |-> TRUE, errors |-> <<>>]

\* validatePlaceholderConsistency: the value returned and the errors added;
\* each loop returns at the first placeholder the other Set does not have
validatePlaceholderConsistency(referenceText, translatedText) ==
    LET refPlaceholders == SetAddAll(<<>>, MatchPlaceholders(referenceText))
        transPlaceholders == SetAddAll(<<>>, MatchPlaceholders(translatedText))
        missing == FilterNotIn(refPlaceholders, transPlaceholders)
        extra == FilterNotIn(transPlaceholders, refPlaceholders)
    IN IF missing # <<>>
       THEN [result |-> FALSE,
             errors |-> <<[message |-> "Missing placeholder", placeholder |-> Head(missing)]>>]
       ELSE IF extra # <<>>
       THEN [result |-> FALSE,
             errors |-> <<[message |-> "Extra placeholder", placeholder |-> Head(extra)]>>]
       ELSE [result |-> TRUE, errors |-> <<>>]

\* one entry of this.errors or this.warnings: the message and its context
Item(message, path) ==
    [message |-> message, path |-> path, referenceType |-> "", targetType |-> "",
     placeholder |-> <<>>]

\* reset(): this.errors = []; this.warnings = []
reset == [errors |-> <<>>, warnings |-> <<>>]

addError(val, item) == [val EXCEPT !.errors = Append(@, item)]
addWarning(val, item) == [val EXCEPT !.warnings = Append(@, item)]

\* variant in which a warning invalidates the result as an error does
getValidationResultStrict(val) ==
    [isValid |-> Len(val.errors) = 0 /\ Len(val.warnings) = 0,
     hasWarnings |-> Len(val.warnings) > 0,
     errors |-> val.errors,
     warnings |-> val.warnings,
     errorCount |-> Len(val.errors),
     warningCount |-> Len(val.warnings)]

getValidationResult(val) ==
    [isValid |-> Len(val.errors) = 0,
     hasWarnings |-> Len(val.warnings) > 0,
     errors |-> val.errors,
     warnings |-> val.warnings,
     errorCount |-> Len(val.errors),
     warningCount |-> Len(val.warnings)]

\* the pieces of text and the keys that hold a character outside [a-zA-Z0-9_-]
OtherCharacters == {"no key", "user name", "<b>", "Hi ", "Hola ", " ", "{"}

\* the pieces of text that are white space only, and those that hold < or >
Blank == {" "}
HtmlPieces == {"<b>"}

\* /^[a-zA-Z0-9_-]+$/.test(key)
isValidKey(key) == key \notin OtherCharacters

\* /^\{[a-zA-Z0-9_-]+\}$/.test(placeholder)
isValidPlaceholder(placeholder) ==
    Len(placeholder) = 3 /\ placeholder[2] \notin OtherCharacters

\* validateTranslationString: the loop over the placeholders of the value
RECURSIVE PlaceholderWarnings(_, _, _)
PlaceholderWarnings(val, placeholders, path) ==
    IF placeholders = <<>> THEN val
    ELSE LET placeholder == Head(placeholders)
             step == IF isValidPlaceholder(placeholder) THEN val
                     ELSE addWarning(val, [Item("Invalid placeholder format", path)
                                              EXCEPT !.placeholder = placeholder])
         IN PlaceholderWarnings(step, Tail(placeholders), path)

validateTranslationString(val, value, path) ==
    LET trimmed == IF \A i \in DOMAIN value : value[i] \in Blank
                   THEN addWarning(val, Item("Empty translation string", path))
                   ELSE val
        checked == PlaceholderWarnings(trimmed, MatchPlaceholders(value), path)
    IN IF \E i \in DOMAIN value : value[i] \in HtmlPieces
       THEN addWarning(checked, Item("Possible HTML content in translation", path))
       ELSE checked

RECURSIVE validateNestedObject(_, _, _)
RECURSIVE validateNestedObjectNullAllowed(_, _, _)

\* variant that reports a null value with a warning
validateNestedObjectNullAllowed(val, obj, path) ==
    IF obj = <<>> THEN val
    ELSE LET e == Head(obj)
             currentPath == JoinKey(path, e.k)
             keyed == IF isValidKey(e.k) THEN val
                      ELSE addWarning(val, Item("Invalid key format", currentPath))
             valued ==
                 CASE e.n.t = "null" ->
                          addWarning(keyed, Item("Null or undefined value", currentPath))
                   [] e.n.t = "string" ->
                          validateTranslationString(keyed, e.n.v, currentPath)
                   [] e.n.t = "object" ->
                          validateNestedObjectNullAllowed(keyed, e.n.kids, currentPath)
                   [] e.n.t = "array" ->
                          addWarning(keyed, Item("Array found in localization file", currentPath))
                   [] OTHER ->
                          addWarning(keyed, Item("Non-string value in localization", currentPath))
         IN validateNestedObjectNullAllowed(valued, Tail(obj), path)

validateNestedObject(val, obj, path) ==
    IF obj = <<>> THEN val
    ELSE LET e == Head(obj)
             currentPath == JoinKey(path, e.k)
             keyed == IF isValidKey(e.k) THEN val
                      ELSE addWarning(val, Item("Invalid key format", currentPath))
             valued ==
                 CASE e.n.t = "null" ->
                          addError(keyed, Item("Null or undefined value", currentPath))
                   [] e.n.t = "string" ->
                          validateTranslationString(keyed, e.n.v, currentPath)
                   [] e.n.t = "object" ->
                          validateNestedObject(keyed, e.n.kids, currentPath)
                   [] e.n.t = "array" ->
                          addWarning(keyed, Item("Array found in localization file", currentPath))
                   [] OTHER ->
                          addWarning(keyed, Item("Non-string value in localization", currentPath))
         IN validateNestedObject(valued, Tail(obj), path)

\* !value: undefined, null, "", 0 and false
Falsy(node) ==
    \/ node.t = "null"
    \/ (node.t = "string" /\ node.v = <<>>)
    \/ (node.t = "number" /\ node.v = <<"0">>)
    \/ (node.t = "boolean" /\ node.v = <<"false">>)

expectedSections == <<"menu", "common", "operation">>

RECURSIVE SectionWarnings(_, _, _)
SectionWarnings(val, jsonData, sections) ==
    IF sections = <<>> THEN val
    ELSE LET section == Head(sections)
             step == IF ~HasKey(jsonData, section) \/ Falsy(GetKey(jsonData, section))
                     THEN addWarning(val, Item("Missing expected section", section))
                     ELSE val
         IN SectionWarnings(step, jsonData, Tail(sections))

validateLocalizationStructure(val, jsonData) ==
    validateNestedObject(SectionWarnings(val, jsonData, expectedSections), jsonData, "")

\* validateJsonFile: this.errors and this.warnings when it returns; a file is
\* absent, empty, garbage, nonobject (JSON whose root is not an object) or json
validateJsonFile(val, file) ==
    CASE file.st = "absent" -> addError(reset, Item("File does not exist", ""))
      [] file.st = "empty" -> addError(reset, Item("File is empty", ""))
      [] file.st = "garbage" -> addError(reset, Item("Invalid JSON syntax", ""))
      [] file.st = "nonobject" -> addError(reset, Item("JSON root must be an object", ""))
      [] OTHER -> validateLocalizationStructure(reset, file.cat)

\* compareStructures: acc is this.errors and this.warnings, with threw once a
\* TypeError is raised; reference is a plain object (its entries), target the
\* value found in the target: a plain object, an array (its entries are its
\* indices; no key of a catalog here is "length") or null, for which
\* "key in target" and Object.keys(target) raise a TypeError
RECURSIVE compareStructures(_, _, _, _)
RECURSIVE CompareLoop(_, _, _, _)
RECURSIVE ExtraLoop(_, _, _, _)

CompareLoop(acc, entries, target, path) ==
    IF acc.threw \/ entries = <<>> THEN acc
    ELSE LET e == Head(entries)
             currentPath == JoinKey(path, e.k)
             step ==
                 IF ~HasKey(target, e.k)
                 THEN addWarning(acc, Item("Missing key in target", currentPath))
                 ELSE LET targetValue == GetKey(target, e.k)
                      IN IF TypeOf(e.n) # TypeOf(targetValue)
                         THEN addError(acc, [Item("Type mismatch", currentPath)
                                                EXCEPT !.referenceType = TypeOf(e.n),
                                                       !.targetType = TypeOf(targetValue)])
                         ELSE IF IsPlainObject(e.n)
                              THEN compareStructures(acc, e.n.kids, targetValue, currentPath)
                              ELSE acc
         IN CompareLoop(step, Tail(entries), target, path)

ExtraLoop(acc, entries, reference, path) ==
    IF entries = <<>> THEN acc
    ELSE LET e == Head(entries)
             step == IF HasKey(reference, e.k) THEN acc
                     ELSE addWarning(acc, Item("Extra key in target", JoinKey(path, e.k)))
         IN ExtraLoop(step, Tail(entries), reference, path)

compareStructures(acc, reference, target, path) ==
    IF target.t = "null" THEN [acc EXCEPT !.threw = TRUE]
    ELSE LET looped == CompareLoop(acc, reference, target.kids, path)
         IN IF looped.threw THEN looped
            ELSE ExtraLoop(looped, target.kids, reference, path)

\* validateStructuralConsistency: this.errors and this.warnings when it
\* returns; both files hold a catalog (an object) when they parse
validateStructuralConsistency(val, referenceFile, targetFile) ==
    IF referenceFile.st # "json" \/ targetFile.st # "json"
    THEN addError(reset, Item("Structural comparison failed", ""))
    ELSE LET acc == compareStructures([errors |-> <<>>, warnings |-> <<>>, threw |-> FALSE],
                                      referenceFile.cat, Obj(targetFile.cat), "")
             kept == [errors |-> acc.errors, warnings |-> acc.warnings]
         IN IF acc.threw
            THEN addError(kept, Item("Structural comparison failed", ""))
            ELSE kept

\* the errors validatePlaceholderConsistency adds, with the path of the leaf
RECURSIVE AddPlaceholderErrors(_, _, _)
AddPlaceholderErrors(val, errors, path) ==
    IF errors = <<>> THEN val
    ELSE AddPlaceholderErrors(
             addError(val, [Item(Head(errors).message, path)
                               EXCEPT !.placeholder = Head(errors).placeholder]),
             Tail(errors), path)

RECURSIVE validatePlaceholdersRecursive(_, _, _, _)
validatePlaceholdersRecursive(val, reference, target, path) ==
    IF reference = <<>> THEN val
    ELSE LET e == Head(reference)
             currentPath == JoinKey(path, e.k)
             step ==
                 IF ~HasKey(target, e.k) THEN val
                 ELSE LET targetValue == GetKey(target, e.k)
                      IN IF e.n.t = "string" /\ targetValue.t = "string"
                         THEN AddPlaceholderErrors(val,
                                  validatePlaceholderConsistency(e.n.v, targetValue.v).errors,
                                  currentPath)
                         ELSE IF IsPlainObject(e.n) /\ IsPlainObject(targetValue)
                              THEN validatePlaceholdersRecursive(val, e.n.kids,
                                                                 targetValue.kids, currentPath)
                              ELSE val
         IN validatePlaceholdersRecursive(step, Tail(reference), target, path)

\* validateTranslationIntegrity: this.errors and this.warnings when it returns
validateTranslationIntegrity(val, referenceFile, targetFile) ==
    LET referenceValidation == validateJsonFile(val, referenceFile)
        targetValidation == validateJsonFile(referenceValidation, targetFile)
    IN IF ~getValidationResult(referenceValidation).isValid
          \/ ~getValidationResult(targetValidation).isValid
       THEN addError(targetValidation, Item("Basic file validation failed", ""))
       ELSE LET structuralValidation ==
                    validateStructuralConsistency(targetValidation, referenceFile, targetFile)
                flagged ==
                    IF getValidationResult(structuralValidation).isValid
                    THEN structuralValidation
                    ELSE addError(structuralValidation,
                                  Item("Structural consistency validation failed", ""))
            IN validatePlaceholdersRecursive(flagged, referenceFile.cat, targetFile.cat, "")

\* validatePlaceholdersRecursive: errors added
PlaceholderErrors(reference, target) ==
    Len(validatePlaceholdersRecursive(reset, reference, target, "").errors)

\* validateNestedObject: one error per null value
NullErrors(obj) == Len(validateNestedObject(reset, obj, "").errors)

\* validateJsonFile(filePath).errorCount
JsonFileErrors(file) == getValidationResult(validateJsonFile(reset, file)).errorCount

\* validateStructuralConsistency(referencePath, targetPath).errorCount
StructuralErrors(referenceFile, targetFile) ==
    getValidationResult(
        validateStructuralConsistency(reset, referenceFile, targetFile)).errorCount

\* variant of validateTranslationIntegrity without the placeholder pass
IntegrityErrorsNoPlaceholders(referenceFile, targetFile) ==
    IF JsonFileErrors(referenceFile) > 0 \/ JsonFileErrors(targetFile) > 0
    THEN JsonFileErrors(targetFile) + 1
    ELSE LET s == StructuralErrors(referenceFile, targetFile)
         IN s + (IF s > 0 THEN 1 ELSE 0)

\* validateTranslationIntegrity(referencePath, targetPath).errorCount
IntegrityErrors(referenceFile, targetFile) ==
    getValidationResult(
        validateTranslationIntegrity(reset, referenceFile, targetFile)).errorCount

-----------------------------------------------------------------------------
(* Bounded input universes *)

\* every object whose keys are a subset of the (ordered) key list, in that
\* order, with values from vals
RECURSIVE ObjectsOver(_, _)
ObjectsOver(keyList, vals) ==
    IF keyList = <<>> THEN {<<>>}
    ELSE LET rest == ObjectsOver(Tail(keyList), vals)
         IN rest \cup {<<Entry(Head(keyList), n)>> \o r : n \in vals, r \in rest}

MergeKeys == <<"a", "b">>
MergeLeaves == {Str(<<"old">>), Str(<<"new">>), Str(<<"added">>)}
MergeInner == ObjectsOver(<<"a">>, MergeLeaves)
MergeCatalogs == ObjectsOver(MergeKeys, MergeLeaves \cup {Obj(o) : o \in MergeInner})

\* the reference catalogs compared with a merged catalog
MergeReferences ==
    ObjectsOver(MergeKeys, {Str(<<"ref">>)}
                           \cup {Obj(o) : o \in ObjectsOver(<<"a">>, {Str(<<"ref">>)})})

CmpKeys == <<"a", "b", "c">>
CmpLeaves == {Str(<<"X">>), NullValue}
CmpInner == ObjectsOver(<<"b">>, CmpLeaves)
CmpCatalogs == ObjectsOver(CmpKeys, CmpLeaves \cup {Obj(o) : o \in CmpInner})

\* catalogs with an array at the root and in a nested object
ArrayCatalogs ==
    {<<Entry("a", ArrayValue)>>,
     <<Entry("a", Obj(<<Entry("b", ArrayValue)>>)), Entry("c", NullValue)>>}

\* the files the test suite compares
referenceData ==
    <<Entry("menu", Obj(<<Entry("home", Str(<<"Home">>)),
                          Entry("settings", Str(<<"Settings">>))>>)),
      Entry("common", Obj(<<Entry("save", Str(<<"Save">>)),
                            Entry("cancel", Str(<<"Cancel">>))>>))>>
targetData == <<Entry("menu", Obj(<<Entry("home", Str(<<"Startseite">>))>>))>>

CmpInputs == CmpCatalogs \cup ArrayCatalogs \cup {referenceData, targetData}

-----------------------------------------------------------------------------
(* The commands: constants and inputs *)

LanguageCodes == <<"de_DE", "fr_FR">>
Langs == SeqToSet(LanguageCodes)

MaxClock == 1
MaxRuns == 2

ReferenceCatalog ==
    <<Entry("greet", Str(<<"Hi ", "{", "user", "}">>)),
      Entry("menu", Obj(<<Entry("home", Str(<<"Home">>))>>))>>

\* en_US.json; Config.validateConfig requires it to exist
ReferenceFile == JsonFile(ReferenceCatalog)

GoodTranslation ==
    <<Entry("greet", Str(<<"Hola ", "{", "user", "}">>)),
      Entry("menu", Obj(<<Entry("home", Str(<<"Inicio">>))>>))>>
WrongPlaceholder ==
    <<Entry("greet", Str(<<"Hola ", "{", "usuario", "}">>)),
      Entry("menu", Obj(<<Entry("home", Str(<<"Inicio">>))>>))>>
NullLeaf ==
    <<Entry("greet", NullValue),
      Entry("menu", Obj(<<Entry("home", Str(<<"Inicio">>))>>))>>
MissingKey == <<Entry("greet", Str(<<"Hola ", "{", "user", "}">>))>>
ExtraKey == Append(GoodTranslation, Entry("bye", Str(<<"Adios">>)))

\* what makeApiRequest gives translateCompleteFile: an error after the last
\* retry, or the response text (unparsable, or parsing to a catalog)
ApiOutcomes ==
    {[kind |-> "error", cat |-> <<>>], [kind |-> "garbage", cat |-> <<>>]}
    \cup {[kind |-> "json", cat |-> c] :
            c \in {GoodTranslation, WrongPlaceholder, NullLeaf, MissingKey, ExtraKey}}

\* a target with a key the reference lacks and without the menu section
PartialTarget ==
    <<Entry("greet", Str(<<"Hallo ", "{", "user", "}">>)),
      Entry("legacy", Str(<<"Alt">>))>>
CompleteTarget ==
    <<Entry("greet", Str(<<"Hallo ", "{", "user", "}">>)),
      Entry("menu", Obj(<<Entry("home", Str(<<"Start">>))>>))>>

\* a target with every key of the reference and one the reference lacks
ExtraTarget == Append(CompleteTarget, Entry("legacy", Str(<<"Alt">>)))

InitialTargets ==
    {AbsentFile, GarbageFile, JsonFile(PartialTarget), JsonFile(CompleteTarget),
     JsonFile(ExtraTarget)}

\* entries of the translationResults map given to batchUpdateComplete / batchUpdate
CompleteInputs ==
    {[success |-> FALSE, translations |-> <<>>]}
    \cup {[success |-> TRUE, translations |-> c] :
            c \in {<<>>, GoodTranslation, NullLeaf, MissingKey, ExtraKey}}
PartialInputs ==
    {[success |-> FALSE, translations |-> <<>>]}
    \cup {[success |-> TRUE, translations |-> c] :
            c \in {<<>>,
                   <<Entry("menu", Obj(<<Entry("home", Str(<<"Start">>))>>))>>,
                   <<Entry("greet", Str(<<"Neu ", "{", "user", "}">>))>>,
                   <<Entry("greet", Obj(<<Entry("formal", Str(<<"Guten Tag">>))>>))>>}}

Commands ==
    {[name |-> "translate", overwriteExisting |-> TRUE],
     [name |-> "batchUpdateComplete", overwriteExisting |-> TRUE],
     [name |-> "batchUpdate", overwriteExisting |-> TRUE],
     [name |-> "batchUpdate", overwriteExisting |-> FALSE]}

NoPath == [set |-> FALSE, ts |-> 0, lang |-> ""]
NoFrame == [lang |-> "", mode |-> "", translated |-> FALSE, proposed |-> <<>>,
            original |-> <<>>, updated |-> <<>>, backupPath |-> NoPath, error |-> ""]
NoResult == [set |-> FALSE, translated |-> FALSE, immediateUpdate |-> FALSE,
             update |-> "none", error |-> "", backupPath |-> NoPath, post |-> "none"]

Min(a, b) == IF a < b THEN a ELSE b

-----------------------------------------------------------------------------
(* Decisions of the code, one operator each *)

\* translateCompleteFile: success when the request returned text that parses
\* and whose key paths match the reference (parseTranslationResponse)
TranslationSucceeds(outcome) ==
    /\ outcome.kind = "json"
    /\ validateJsonStructure(ReferenceCatalog, outcome.cat).isValid

\* variant that updates whatever the translation result was
UpdateImmediatelyAlways(success, dryRun) == ~dryRun

\* batchTranslateCompleteWithUpdates: translationResult.success && !config.isDryRun()
UpdateImmediately(success, dryRun) == success /\ ~dryRun

\* variant that also takes the languages with extra keys
NeedsTranslationOrCleanup(file) ==
    /\ file.st # "garbage"
    /\ LET r == compare(ReferenceCatalog, [exists |-> file.st = "json", cat |-> file.cat])
       IN r.missingCount > 0 \/ r.extraCount > 0

\* filterLanguagesNeedingTranslation: no comparison error and missingCount > 0
NeedsTranslation(file) ==
    /\ file.st # "garbage"
    /\ compare(ReferenceCatalog, [exists |-> file.st = "json", cat |-> file.cat]).missingCount > 0

RECURSIVE SelectLanguages(_)
SelectLanguages(codes) ==
    IF codes = <<>> THEN <<>>
    ELSE (IF NeedsTranslation(files[Head(codes)]) THEN <<Head(codes)>> ELSE <<>>)
         \o SelectLanguages(Tail(codes))

\* createBackup does nothing when backups are disabled; it is not called in a dry run
BackupWanted == cfg.backupEnabled /\ ~cfg.dryRun

\* `${timestamp}_${filename}` in the backup directory
BackupName(t, lang) == [set |-> TRUE, ts |-> t, lang |-> lang]

BackupExists(path) == \E b \in backups : b.ts = path.ts /\ b.lang = path.lang
BackupData(path) == (CHOOSE b \in backups : b.ts = path.ts /\ b.lang = path.lang).data

\* fs.copyFileSync(filePath, backupPath): a file of that name is replaced
CopyToBackup(path, data) ==
    {b \in backups : ~(b.ts = path.ts /\ b.lang = path.lang)}
    \cup {[ts |-> path.ts, lang |-> path.lang, data |-> data]}

\* checkForUndefinedValues: no value of the object is undefined
RECURSIVE NoUndefinedValues(_)
NoUndefinedValues(obj) ==
    \A i \in 1..Len(obj) :
        /\ obj[i].n.t # "undefined"
        /\ (IsPlainObject(obj[i].n) => NoUndefinedValues(obj[i].n.kids))

\* variant without the comparison against the reference
PreWriteValidNoReference(mode, content) == NoUndefinedValues(content)

\* "Validate structure if requested" of both updaters (validateResult = true)
PreWriteValid(mode, content) ==
    /\ NoUndefinedValues(content)
    /\ (mode = "complete" =>
            LET v == validateTranslationStructure(content, ReferenceFile)
            IN ~v.threw /\ v.isValid)

\* variant that writes the new translations alone
UpdatedContentReplace(mode, original, proposed) == proposed

\* the content to write: the complete translations, or the merge
UpdatedContent(mode, original, proposed) ==
    IF mode = "complete" THEN proposed
    ELSE MergeTranslations(original, proposed, cmd.overwriteExisting)

\* formatJson, read back: JSON.stringify leaves out the undefined values
RECURSIVE formatJson(_)
formatJson(obj) ==
    IF obj = <<>> THEN <<>>
    ELSE LET e == Head(obj)
             rest == formatJson(Tail(obj))
         IN IF e.n.t = "undefined" THEN rest
            ELSE <<Entry(e.k, IF IsPlainObject(e.n) THEN Obj(formatJson(e.n.kids))
                              ELSE e.n)>> \o rest

\* catch block: if (backupPath && !this.dryRun)
RestoreWanted(backupPath) == backupPath.set /\ ~cfg.dryRun

\* performPostValidationImmediate: the entries it validates
PostValidated(r) == r.set /\ r.translated /\ r.immediateUpdate /\ r.update = "ok"

\* generateFinalReport: result.success of a translate result, of an update result
CountedSuccess(r) ==
    r.set /\ (IF cmd.name = "translate" THEN r.translated ELSE r.update = "ok")

LogEvent(lang, ev) == log' = [log EXCEPT ![lang] = Append(@, ev)]

\* variant that goes to the validation after each language
AdvanceToValidation ==
    /\ idx' = idx
    /\ pc' = IF cmd.name # "translate" THEN "done"
             ELSE IF ~cfg.skipValidation /\ ~cfg.dryRun THEN "postvalidate"
             ELSE "report"

\* variant that leaves the loop at the first language that failed
AdvanceUntilFailure ==
    IF idx < Len(queue) /\ results'[queue[idx]].translated
                        /\ results'[queue[idx]].update # "failed"
    THEN /\ idx' = idx + 1
         /\ pc' = IF cmd.name = "translate" THEN "translate" ELSE "batch"
    ELSE /\ idx' = idx
         /\ pc' = IF cmd.name # "translate" THEN "done"
                  ELSE IF ~cfg.skipValidation /\ ~cfg.dryRun THEN "postvalidate"
                  ELSE "report"

\* the loop goes on to the next language, or the command to its next phase
Advance ==
    IF idx < Len(queue)
    THEN /\ idx' = idx + 1
         /\ pc' = IF cmd.name = "translate" THEN "translate" ELSE "batch"
    ELSE /\ idx' = idx
         /\ pc' = IF cmd.name # "translate" THEN "done"
                  ELSE IF ~cfg.skipValidation /\ ~cfg.dryRun THEN "postvalidate"
                  ELSE "report"

\* the entry set in the result map when the update of frame.lang returns
UpdateReturns(status) ==
    /\ results' = [results EXCEPT ![frame.lang] =
                      [set |-> TRUE, translated |-> frame.translated,
                       immediateUpdate |-> TRUE, update |-> status, error |-> IF status = "ok" THEN "" ELSE frame.error,
                       backupPath |-> frame.backupPath, post |-> "none"]]
    /\ frame' = NoFrame
    /\ Advance

\* the entry set for a language that is not updated
NoUpdate(lang, translated, status, err) ==
    /\ results' = [results EXCEPT ![lang] =
                      [set |-> TRUE, translated |-> translated, immediateUpdate |-> FALSE,
                       update |-> status, error |-> err,
                       backupPath |-> NoPath, post |-> "none"]]
    /\ Advance

StartUpdate(lang, mode, translated, proposed) ==
    /\ frame' = [NoFrame EXCEPT !.lang = lang, !.mode = mode, !.translated = translated,
                                !.proposed = proposed]
    /\ pc' = "u_load"

-----------------------------------------------------------------------------
(* Actions *)

\* handleTranslateCommand up to the translation loop: performComparisons and
\* filterLanguagesNeedingTranslation
StartTranslate ==
    /\ pc = "start"
    /\ cmd.name = "translate"
    /\ LET todo == SelectLanguages(LanguageCodes)
       IN /\ queue' = todo
          /\ idx' = IF todo = <<>> THEN 0 ELSE 1
          /\ pc' = IF todo = <<>> THEN "done" ELSE "translate"
    /\ UNCHANGED <<cfg, cmd, files, backups, now, frame, results, report, before, log>>

\* batchUpdateComplete / batchUpdate called on a result map with every language
StartBatch ==
    /\ pc = "start"
    /\ cmd.name # "translate"
    /\ queue' = LanguageCodes
    /\ idx' = 1
    /\ pc' = "batch"
    /\ UNCHANGED <<cfg, cmd, files, backups, now, frame, results, report, before, log>>

\* one iteration of batchTranslateCompleteWithUpdates up to the update
Translate ==
    /\ pc = "translate"
    /\ \E outcome \in ApiOutcomes :
          LET lang == queue[idx]
              success == TranslationSucceeds(outcome)
              complete == IF success THEN outcome.cat ELSE <<>>
          IN /\ LogEvent(lang, "translate")
             /\ IF UpdateImmediately(success, cfg.dryRun)
                THEN /\ StartUpdate(lang, "complete", success, complete)
                     /\ UNCHANGED <<results, idx>>
                ELSE /\ NoUpdate(lang, success, "none", IF success THEN "" ELSE "translate")
                     /\ UNCHANGED frame
    /\ UNCHANGED <<cfg, cmd, files, backups, now, queue, report, before>>

\* one iteration of batchUpdateComplete / batchUpdate up to the update
BatchNext ==
    /\ pc = "batch"
    /\ \E input \in (IF cmd.name = "batchUpdate" THEN PartialInputs ELSE CompleteInputs) :
          LET lang == queue[idx]
          IN IF ~input.success
             THEN NoUpdate(lang, FALSE, "skipped", "Translation failed") /\ UNCHANGED frame
             ELSE IF input.translations = <<>>
                  THEN NoUpdate(lang, TRUE, "skipped", "") /\ UNCHANGED frame
                  ELSE /\ StartUpdate(lang, IF cmd.name = "batchUpdate" THEN "partial"
                                             ELSE "complete", TRUE, input.translations)
                       /\ UNCHANGED <<results, idx>>
    /\ LogEvent(queue[idx], "entry")
    /\ UNCHANGED <<cfg, cmd, files, backups, now, queue, report, before>>

\* "Load existing content"
ULoad ==
    /\ pc = "u_load"
    /\ LET f == files[frame.lang]
       IN IF f.st = "garbage"
          THEN /\ frame' = [frame EXCEPT !.error = "load"]
               /\ pc' = "u_catch"
          ELSE /\ frame' = [frame EXCEPT !.original = f.cat]
               /\ pc' = "u_backup"
    /\ LogEvent(frame.lang, "load")
    /\ UNCHANGED <<cfg, cmd, files, backups, now, queue, idx, results, report, before>>

\* "Create backup if enabled": createBackup, whose copy may fail
UBackup ==
    /\ pc = "u_backup"
    /\ IF ~BackupWanted
       THEN /\ pc' = "u_validate"
            /\ UNCHANGED <<frame, backups, now, log>>
       ELSE \E t \in now..Min(now + 1, MaxClock), copied \in BOOLEAN :
               /\ now' = t
               /\ IF files[frame.lang].st = "absent"
                  THEN /\ copied
                       /\ frame' = [frame EXCEPT !.backupPath = BackupName(t, frame.lang)]
                       /\ pc' = "u_validate"
                       /\ UNCHANGED <<backups, log>>
                  ELSE IF copied
                       THEN /\ backups' = CopyToBackup(BackupName(t, frame.lang),
                                                       files[frame.lang])
                            /\ frame' = [frame EXCEPT !.backupPath = BackupName(t, frame.lang)]
                            /\ pc' = "u_validate"
                            /\ LogEvent(frame.lang, "backup")
                       ELSE /\ frame' = [frame EXCEPT !.error = "backup"]
                            /\ pc' = "u_catch"
                            /\ UNCHANGED <<backups, log>>
    /\ UNCHANGED <<cfg, cmd, files, queue, idx, results, report, before>>

\* merge (partial mode) and "Validate structure if requested"
UValidate ==
    /\ pc = "u_validate"
    /\ LET content == UpdatedContent(frame.mode, frame.original, frame.proposed)
       IN IF PreWriteValid(frame.mode, content)
          THEN /\ frame' = [frame EXCEPT !.updated = content]
               /\ pc' = "u_write"
               /\ LogEvent(frame.lang, "validated")
          ELSE /\ frame' = [frame EXCEPT !.error = "validation"]
               /\ pc' = "u_catch"
               /\ LogEvent(frame.lang, "rejected")
    /\ UNCHANGED <<cfg, cmd, files, backups, now, queue, idx, results, report, before>>

\* "Write updated content": writeFileSync, which may fail before or after
\* it truncated the file; on success the update returns
UWrite ==
    /\ pc = "u_write"
    /\ IF cfg.dryRun
       THEN /\ UpdateReturns("ok")
            /\ UNCHANGED <<files, log>>
       ELSE \E outcome \in {"written", "failed", "failed_truncated"} :
               IF outcome = "written"
               THEN /\ files' = [files EXCEPT ![frame.lang] = JsonFile(formatJson(frame.updated))]
                    /\ LogEvent(frame.lang, "write")
                    /\ UpdateReturns("ok")
               ELSE /\ files' = [files EXCEPT ![frame.lang] =
                                    IF outcome = "failed" THEN @ ELSE GarbageFile]
                    /\ LogEvent(frame.lang, "write_failed")
                    /\ frame' = [frame EXCEPT !.error = "write"]
                    /\ pc' = "u_catch"
                    /\ UNCHANGED <<results, idx>>
    /\ UNCHANGED <<cfg, cmd, backups, now, queue, report, before>>

\* the catch block: restoreFromBackup when a backup path was returned, then
\* the failure result; a restore that throws is logged only
UCatch ==
    /\ pc = "u_catch"
    /\ IF RestoreWanted(frame.backupPath) /\ BackupExists(frame.backupPath)
       THEN \E copied \in BOOLEAN :
               IF copied
               THEN /\ files' = [files EXCEPT ![frame.lang] = BackupData(frame.backupPath)]
                    /\ LogEvent(frame.lang, "restore")
               ELSE /\ LogEvent(frame.lang, "restore_failed")
                    /\ UNCHANGED files
       ELSE IF RestoreWanted(frame.backupPath)
            THEN /\ LogEvent(frame.lang, "restore_failed")
                 /\ UNCHANGED files
            ELSE UNCHANGED <<files, log>>
    /\ UpdateReturns("failed")
    /\ UNCHANGED <<cfg, cmd, backups, now, queue, report, before>>

\* performPostValidationImmediate: validates the written files and logs
PostValidate ==
    /\ pc = "postvalidate"
    /\ results' = [l \in Langs |->
                     IF PostValidated(results[l])
                     THEN [results[l] EXCEPT !.post =
                              IF IntegrityErrors(ReferenceFile, files[l]) = 0
                              THEN "passed" ELSE "failed"]
                     ELSE results[l]]
    /\ pc' = "report"
    /\ UNCHANGED <<cfg, cmd, files, backups, now, queue, idx, frame, report, before, log>>

\* generateFinalReport
Report ==
    /\ pc = "report"
    /\ report' = [printed |-> TRUE,
                  successCount |-> Cardinality({l \in Langs : CountedSuccess(results[l])}),
                  failedCount |-> Cardinality({l \in Langs : results[l].set
                                                  /\ ~CountedSuccess(results[l])})]
    /\ pc' = "done"
    /\ UNCHANGED <<cfg, cmd, files, backups, now, queue, idx, frame, results, before, log>>

MergeIdle ==
    /\ mBase = <<>>
    /\ mIncoming = <<>>
    /\ mOverwrite = FALSE
    /\ mResult = [done |-> FALSE, cat |-> <<>>]
    /\ mAgain = [done |-> FALSE, cat |-> <<>>]
    /\ mDiff = [done |-> FALSE, ref |-> <<>>, r |-> compare(<<>>, [exists |-> FALSE, cat |-> <<>>])]

CmpIdle ==
    /\ cRef = <<>>
    /\ cTarget = [exists |-> FALSE, cat |-> <<>>]
    /\ cResult = [done |-> FALSE, r |-> compare(<<>>, [exists |-> FALSE, cat |-> <<>>]),
                  keys |-> <<>>]

PhIdle ==
    /\ pRef = <<>>
    /\ pTrans = <<>>
    /\ pResult = [done |-> FALSE, r |-> validatePlaceholderConsistency(<<>>, <<>>)]

\* a response text: white space around a content that is empty, does not
\* parse, or parses to a catalog
NoContent == [kind |-> "none", cat |-> <<>>]
Text(padded, content) == [padded |-> padded, content |-> content]
NoText == Text(FALSE, NoContent)

\* api before translateCompleteFile is called
NoCall(maxRetries) ==
    [maxRetries |-> maxRetries, retryCount |-> 0, pc |-> "request", responses |-> <<>>,
     slept |-> <<>>, returned |-> NoText, raised |-> "", success |-> FALSE]

ApiIdle == api = [NoCall(1) EXCEPT !.pc = "done"]

ValIdle ==
    /\ vRef = AbsentFile
    /\ vTarget = AbsentFile
    /\ validator = reset
    /\ vResult = [op |-> "none", file |-> "", r |-> getValidationResult(reset)]
    /\ vCalls = 0

RunIdle ==
    /\ cfg = [backupEnabled |-> FALSE, dryRun |-> FALSE, skipValidation |-> FALSE,
              dryRunOption |-> FALSE]
    /\ cmd = [name |-> "translate", overwriteExisting |-> TRUE]
    /\ files = [l \in Langs |-> AbsentFile]
    /\ backups = {}
    /\ now = 0
    /\ pc = "done"
    /\ queue = <<>>
    /\ idx = 0
    /\ frame = NoFrame
    /\ results = [l \in Langs |-> NoResult]
    /\ report = [printed |-> FALSE, successCount |-> 0, failedCount |-> 0]
    /\ before = files
    /\ log = [l \in Langs |-> <<>>]
    /\ runs = 0

Init ==
    /\ cfg \in [backupEnabled : BOOLEAN, dryRun : BOOLEAN, skipValidation : BOOLEAN,
                 dryRunOption : BOOLEAN]
    /\ cmd \in Commands
    /\ (cfg.dryRunOption => cmd.name = "translate")
    /\ files \in [Langs -> InitialTargets]
    /\ backups = {}
    /\ now = 0
    /\ pc = "start"
    /\ queue = <<>>
    /\ idx = 0
    /\ frame = NoFrame
    /\ results = [l \in Langs |-> NoResult]
    /\ report = [printed |-> FALSE, successCount |-> 0, failedCount |-> 0]
    /\ before = files
    /\ log = [l \in Langs |-> <<>>]
    /\ runs = 1
    /\ MergeIdle
    /\ CmpIdle
    /\ PhIdle
    /\ ValIdle
    /\ ApiIdle

Next ==
    \/ (StartTranslate /\ UNCHANGED <<pureVars, runs>>)
    \/ (StartBatch /\ UNCHANGED <<pureVars, runs>>)
    \/ (Translate /\ UNCHANGED <<pureVars, runs>>)
    \/ (BatchNext /\ UNCHANGED <<pureVars, runs>>)
    \/ (ULoad /\ UNCHANGED <<pureVars, runs>>)
    \/ (UBackup /\ UNCHANGED <<pureVars, runs>>)
    \/ (UValidate /\ UNCHANGED <<pureVars, runs>>)
    \/ (UWrite /\ UNCHANGED <<pureVars, runs>>)
    \/ (UCatch /\ UNCHANGED <<pureVars, runs>>)
    \/ (PostValidate /\ UNCHANGED <<pureVars, runs>>)
    \/ (Report /\ UNCHANGED <<pureVars, runs>>)

-----------------------------------------------------------------------------
(* SpecBackup: batchUpdateComplete / batchUpdate called again and again on
   the same locales and backup directories *)

BackupCommands ==
    {[name |-> "batchUpdateComplete", overwriteExisting |-> TRUE],
     [name |-> "batchUpdate", overwriteExisting |-> TRUE]}

InitBackup ==
    /\ cfg \in [backupEnabled : BOOLEAN, dryRun : BOOLEAN, skipValidation : {FALSE},
                 dryRunOption : {FALSE}]
    /\ cmd \in BackupCommands
    /\ files \in [Langs -> {AbsentFile, JsonFile(PartialTarget), JsonFile(CompleteTarget)}]
    /\ backups = {}
    /\ now = 0
    /\ pc = "start"
    /\ queue = <<>>
    /\ idx = 0
    /\ frame = NoFrame
    /\ results = [l \in Langs |-> NoResult]
    /\ report = [printed |-> FALSE, successCount |-> 0, failedCount |-> 0]
    /\ before = files
    /\ log = [l \in Langs |-> <<>>]
    /\ runs = 1
    /\ MergeIdle
    /\ CmpIdle
    /\ PhIdle
    /\ ValIdle
    /\ ApiIdle

\* the next call, on the files and backups the last one left, at any later
\* time or within the same second
Again ==
    /\ pc = "done"
    /\ runs < MaxRuns
    /\ runs' = runs + 1
    /\ cmd' \in BackupCommands
    /\ pc' = "start"
    /\ queue' = <<>>
    /\ idx' = 0
    /\ frame' = NoFrame
    /\ results' = [l \in Langs |-> NoResult]
    /\ before' = files
    /\ log' = [l \in Langs |-> <<>>]
    /\ UNCHANGED <<cfg, files, backups, now, report>>

NextBackup ==
    \/ (StartBatch /\ UNCHANGED <<pureVars, runs>>)
    \/ (BatchNext /\ UNCHANGED <<pureVars, runs>>)
    \/ (ULoad /\ UNCHANGED <<pureVars, runs>>)
    \/ (UBackup /\ UNCHANGED <<pureVars, runs>>)
    \/ (UValidate /\ UNCHANGED <<pureVars, runs>>)
    \/ (UWrite /\ UNCHANGED <<pureVars, runs>>)
    \/ (UCatch /\ UNCHANGED <<pureVars, runs>>)
    \/ (Again /\ UNCHANGED pureVars)

-----------------------------------------------------------------------------
(* SpecRestart: the translate command, killed when a translate request is
   about to start and started again on the files it left *)

InitRestart ==
    /\ Init
    /\ cmd.name = "translate"
    /\ ~cfg.dryRunOption

\* the process is stopped at the start of a translate request and the
\* command is run again: the files and backups stay, the run's memory is lost
Restart ==
    /\ pc = "translate"
    /\ runs < MaxRuns
    /\ runs' = runs + 1
    /\ pc' = "start"
    /\ queue' = <<>>
    /\ idx' = 0
    /\ frame' = NoFrame
    /\ results' = [l \in Langs |-> NoResult]
    /\ before' = files
    /\ log' = [l \in Langs |-> Append(log[l], "restart")]
    /\ UNCHANGED <<cfg, cmd, files, backups, now, report>>

NextRestart ==
    \/ (StartTranslate /\ UNCHANGED <<pureVars, runs>>)
    \/ (Translate /\ UNCHANGED <<pureVars, runs>>)
    \/ (ULoad /\ UNCHANGED <<pureVars, runs>>)
    \/ (UBackup /\ UNCHANGED <<pureVars, runs>>)
    \/ (UValidate /\ UNCHANGED <<pureVars, runs>>)
    \/ (UWrite /\ UNCHANGED <<pureVars, runs>>)
    \/ (UCatch /\ UNCHANGED <<pureVars, runs>>)
    \/ (PostValidate /\ UNCHANGED <<pureVars, runs>>)
    \/ (Report /\ UNCHANGED <<pureVars, runs>>)
    \/ (Restart /\ UNCHANGED pureVars)

-----------------------------------------------------------------------------
(* SpecMerge: updateTranslations' merge on every pair of catalogs *)

InitMerge ==
    /\ mBase \in MergeCatalogs
    /\ mIncoming \in MergeCatalogs
    /\ mOverwrite \in BOOLEAN
    /\ mResult = [done |-> FALSE, cat |-> <<>>]
    /\ mAgain = [done |-> FALSE, cat |-> <<>>]
    /\ mDiff = [done |-> FALSE, ref |-> <<>>, r |-> compare(<<>>, [exists |-> FALSE, cat |-> <<>>])]
    /\ CmpIdle
    /\ PhIdle
    /\ ValIdle
    /\ ApiIdle
    /\ RunIdle

DoMerge ==
    /\ ~mResult.done
    /\ mResult' = [done |-> TRUE, cat |-> MergeTranslations(mBase, mIncoming, mOverwrite)]
    /\ UNCHANGED <<mBase, mIncoming, mOverwrite, mAgain, mDiff, cmpVars, phVars, valVars, apiVars, runVars, runs>>

\* updateTranslations called again with the same newTranslations on the
\* catalog the first call wrote
DoMergeAgain ==
    /\ mResult.done
    /\ ~mAgain.done
    /\ mAgain' = [done |-> TRUE, cat |-> MergeTranslations(mResult.cat, mIncoming, mOverwrite)]
    /\ UNCHANGED <<mBase, mIncoming, mOverwrite, mResult, mDiff, cmpVars, phVars, valVars, apiVars, runVars, runs>>

\* compare of the written catalog with a reference whose key paths are those
\* of the two operands together
DoDiff ==
    /\ mResult.done
    /\ ~mDiff.done
    /\ \E ref \in MergeReferences :
          /\ SeqToSet(extractKeys(ref, ""))
                = SeqToSet(extractKeys(mBase, "")) \cup SeqToSet(extractKeys(mIncoming, ""))
          /\ mDiff' = [done |-> TRUE, ref |-> ref,
                       r |-> compare(ref, [exists |-> TRUE, cat |-> mResult.cat])]
    /\ UNCHANGED <<mBase, mIncoming, mOverwrite, mResult, mAgain, cmpVars, phVars, valVars, apiVars, runVars, runs>>

NextMerge == DoMerge \/ DoMergeAgain \/ DoDiff

-----------------------------------------------------------------------------
(* SpecPlaceholders: validatePlaceholderConsistency on every pair of texts *)

MaxSegments == 3

\* a run of plain text, two placeholders and a brace that opens nothing
Segments == {<<"Hi">>, <<"{", "name", "}">>, <<"{", "app", "}">>, <<"{">>}

RECURSIVE TextsOf(_)
TextsOf(n) ==
    IF n = 0 THEN {<<>>}
    ELSE TextsOf(n - 1) \cup {t \o seg : t \in TextsOf(n - 1), seg \in Segments}

Texts == TextsOf(MaxSegments)

\* 'Hi {user}' and its translation 'Hola {usuario}'
ScenarioTexts == <<<<"Hi ", "{", "user", "}">>, <<"Hola ", "{", "usuario", "}">>>>

InitPlaceholders ==
    /\ \E pair \in (Texts \X Texts) \cup {ScenarioTexts} :
           /\ pRef = pair[1]
           /\ pTrans = pair[2]
    /\ pResult = [done |-> FALSE, r |-> validatePlaceholderConsistency(<<>>, <<>>)]
    /\ MergeIdle
    /\ CmpIdle
    /\ ValIdle
    /\ ApiIdle
    /\ RunIdle

DoValidatePlaceholders ==
    /\ ~pResult.done
    /\ pResult' = [done |-> TRUE, r |-> validatePlaceholderConsistency(pRef, pTrans)]
    /\ UNCHANGED <<pRef, pTrans, mergeVars, cmpVars, valVars, apiVars, runVars, runs>>

NextPlaceholders == DoValidatePlaceholders

-----------------------------------------------------------------------------
(* SpecCompare: compare on every reference and target *)

InitCompare ==
    /\ cRef \in CmpInputs
    /\ cTarget \in [exists : BOOLEAN, cat : CmpInputs]
    /\ (~cTarget.exists => cTarget.cat = <<>>)
    /\ cResult = [done |-> FALSE, r |-> compare(<<>>, [exists |-> FALSE, cat |-> <<>>]),
                  keys |-> <<>>]
    /\ MergeIdle
    /\ PhIdle
    /\ ValIdle
    /\ ApiIdle
    /\ RunIdle

DoCompare ==
    /\ ~cResult.done
    /\ cResult' = [done |-> TRUE, r |-> compare(cRef, cTarget),
                   keys |-> extractKeys(cRef, "")]
    /\ UNCHANGED <<cRef, cTarget, mergeVars, phVars, valVars, apiVars, runVars, runs>>

NextCompare == DoCompare

-----------------------------------------------------------------------------
(* SpecValidator: a sequence of validations on one Validator *)

MaxCalls == 2

ValLeaves == {Str(<<"X">>), NumberValue, BooleanValue, ArrayValue, NullValue}

\* nested objects: empty, one leaf of each kind, and leaves and keys that
\* validateTranslationString and isValidKey warn about
ValInner ==
    {Obj(<<>>)}
    \cup {Obj(<<Entry("home", leaf)>>) : leaf \in ValLeaves}
    \cup {Obj(<<Entry("no key", Str(<<"X">>))>>),
          Obj(<<Entry("home", Str(<<>>))>>),
          Obj(<<Entry("home", Str(<<"<b>">>))>>),
          Obj(<<Entry("home", Str(<<"{", "user name", "}">>))>>)}

MenuValues == ValLeaves \cup ValInner
CommonValues == {Str(<<"X">>), Obj(<<Entry("save", Str(<<"X">>))>>)}

ValCatalogs ==
    {menu \o common :
        menu \in {<<>>} \cup {<<Entry("menu", n)>> : n \in MenuValues},
        common \in {<<>>} \cup {<<Entry("common", n)>> : n \in CommonValues}}

ValFiles ==
    {JsonFile(cat) : cat \in ValCatalogs}
    \cup {AbsentFile, EmptyFile, GarbageFile, NonObjectFile}

InitValidator ==
    /\ vRef \in ValFiles
    /\ vTarget \in ValFiles
    /\ validator = reset
    /\ vResult = [op |-> "none", file |-> "", r |-> getValidationResult(reset)]
    /\ vCalls = 0
    /\ MergeIdle
    /\ CmpIdle
    /\ PhIdle
    /\ ApiIdle
    /\ RunIdle

\* validator.validateJsonFile(path) on either file
DoValidateJsonFile ==
    /\ vCalls < MaxCalls
    /\ \E which \in {"reference", "target"} :
           LET file == IF which = "reference" THEN vRef ELSE vTarget
               after == validateJsonFile(validator, file)
           IN /\ validator' = after
              /\ vResult' = [op |-> "jsonFile", file |-> which,
                             r |-> getValidationResult(after)]
    /\ vCalls' = vCalls + 1
    /\ UNCHANGED <<vRef, vTarget, mergeVars, cmpVars, phVars, apiVars, runVars, runs>>

\* validator.validateStructuralConsistency(referencePath, targetPath), on
\* files that hold a catalog when they parse
DoValidateStructuralConsistency ==
    /\ vCalls < MaxCalls
    /\ vRef.st # "nonobject"
    /\ vTarget.st # "nonobject"
    /\ LET after == validateStructuralConsistency(validator, vRef, vTarget)
       IN /\ validator' = after
          /\ vResult' = [op |-> "structural", file |-> "both",
                         r |-> getValidationResult(after)]
    /\ vCalls' = vCalls + 1
    /\ UNCHANGED <<vRef, vTarget, mergeVars, cmpVars, phVars, apiVars, runVars, runs>>

\* validator.validateTranslationIntegrity(referencePath, targetPath)
DoValidateTranslationIntegrity ==
    /\ vCalls < MaxCalls
    /\ LET after == validateTranslationIntegrity(validator, vRef, vTarget)
       IN /\ validator' = after
          /\ vResult' = [op |-> "integrity", file |-> "both",
                         r |-> getValidationResult(after)]
    /\ vCalls' = vCalls + 1
    /\ UNCHANGED <<vRef, vTarget, mergeVars, cmpVars, phVars, apiVars, runVars, runs>>

\* validator.validatePlaceholderConsistency(referenceText, translatedText, path):
\* returns a boolean and leaves its error, if any, on the Validator
DoCheckPlaceholders ==
    /\ vCalls < MaxCalls
    /\ \E translatedText \in {ScenarioTexts[1], ScenarioTexts[2]} :
           validator' = AddPlaceholderErrors(validator,
                            validatePlaceholderConsistency(ScenarioTexts[1],
                                                           translatedText).errors,
                            "greet")
    /\ vResult' = [vResult EXCEPT !.op = "placeholders", !.file = ""]
    /\ vCalls' = vCalls + 1
    /\ UNCHANGED <<vRef, vTarget, mergeVars, cmpVars, phVars, apiVars, runVars, runs>>

NextValidator ==
    \/ DoValidateJsonFile
    \/ DoValidateStructuralConsistency
    \/ DoValidateTranslationIntegrity
    \/ DoCheckPlaceholders

-----------------------------------------------------------------------------
(* SpecRetry: makeApiRequest and its retries, inside translateCompleteFile *)

\* the largest MAX_RETRIES setting; parseInt(MAX_RETRIES) || 3 is never 0
MaxRetriesSetting == 5

BaseDelay == 1000
MaxDelay == 10000

RECURSIVE Pow2(_)
Pow2(n) == IF n = 0 THEN 1 ELSE 2 * Pow2(n - 1)

\* Math.min(1000 * Math.pow(2, retryCount), 10000)
Delay(retryCount) == Min(BaseDelay * Pow2(retryCount), MaxDelay)

\* variant that retries once more
ShouldRetryInclusive(retryCount, maxRetries) == retryCount <= maxRetries

\* if (retryCount < this.maxRetries)
ShouldRetry(retryCount, maxRetries) == retryCount < maxRetries

\* if (text): any string but the empty one
Truthy(text) == text.padded \/ text.content.kind # "none"

\* text.trim()
Trim(text) == [text EXCEPT !.padded = FALSE]

ResponseContents ==
    {NoContent, [kind |-> "garbage", cat |-> <<>>],
     [kind |-> "json", cat |-> GoodTranslation], [kind |-> "json", cat |-> MissingKey]}

\* what one generateContent call does: it throws, or gives a text
ApiResponses ==
    {[kind |-> "throw", error |-> e, text |-> NoText] : e \in {"network", "quota"}}
    \cup {[kind |-> "text", error |-> "", text |-> Text(p, c)] :
             p \in BOOLEAN, c \in ResponseContents}

\* the error the attempt ends with, "" when it returns the text
ErrorOf(response) ==
    IF response.kind = "throw" THEN response.error
    ELSE IF Truthy(response.text) THEN ""
    ELSE "empty"

InitRetry ==
    /\ \E maxRetries \in 1..MaxRetriesSetting : api = NoCall(maxRetries)
    /\ MergeIdle
    /\ CmpIdle
    /\ PhIdle
    /\ ValIdle
    /\ RunIdle

\* one execution of makeApiRequest up to its return, its throw or its sleep
ApiRequest ==
    /\ api.pc = "request"
    /\ \E response \in ApiResponses :
           LET error == ErrorOf(response)
               tried == [api EXCEPT !.responses = Append(@, response)]
           IN api' = IF error = ""
                     THEN [tried EXCEPT !.pc = "returned", !.returned = Trim(response.text)]
                     ELSE IF ShouldRetry(api.retryCount, api.maxRetries)
                          THEN [tried EXCEPT !.pc = "sleep"]
                          ELSE [tried EXCEPT !.pc = "raised", !.raised = error]
    /\ UNCHANGED <<mergeVars, cmpVars, phVars, valVars, runVars, runs>>

\* await this.sleep(delay); return this.makeApiRequest(prompt, retryCount + 1)
ApiSleep ==
    /\ api.pc = "sleep"
    /\ api' = [api EXCEPT !.slept = Append(@, Delay(api.retryCount)),
                          !.retryCount = @ + 1,
                          !.pc = "request"]
    /\ UNCHANGED <<mergeVars, cmpVars, phVars, valVars, runVars, runs>>

\* translateCompleteFile after the response: parseTranslationResponse, and
\* the result it returns
ApiParse ==
    /\ api.pc = "returned"
    /\ api' = [api EXCEPT !.pc = "done",
                          !.success = TranslationSucceeds(api.returned.content)]
    /\ UNCHANGED <<mergeVars, cmpVars, phVars, valVars, runVars, runs>>

\* translateCompleteFile when makeApiRequest throws: the failure result
ApiCatch ==
    /\ api.pc = "raised"
    /\ api' = [api EXCEPT !.pc = "done", !.success = FALSE]
    /\ UNCHANGED <<mergeVars, cmpVars, phVars, valVars, runVars, runs>>

NextRetry ==
    \/ ApiRequest
    \/ ApiSleep
    \/ ApiParse
    \/ ApiCatch

vars == <<pureVars, runVars, runs>>

Spec == Init /\ [][Next]_vars
SpecBackup == InitBackup /\ [][NextBackup]_vars
SpecPlaceholders == InitPlaceholders /\ [][NextPlaceholders]_vars

SpecMerge == InitMerge /\ [][NextMerge]_vars
SpecCompare == InitCompare /\ [][NextCompare]_vars
SpecValidator == InitValidator /\ [][NextValidator]_vars
SpecRestart == InitRestart /\ [][NextRestart]_vars
SpecRetry == InitRetry /\ [][NextRetry]_vars

-----------------------------------------------------------------------------
(* Vocabulary of the properties: key paths as sequences of segments *)

RECURSIVE PathsOf(_)
PathsOf(obj) ==
    UNION {{<<obj[i].k>>} \cup
           (IF IsPlainObject(obj[i].n)
            THEN {<<obj[i].k>> \o p : p \in PathsOf(obj[i].n.kids)}
            ELSE {}) : i \in 1..Len(obj)}

\* the node at a path the catalog has
RECURSIVE NodeAt(_, _)
NodeAt(obj, path) ==
    IF Len(path) = 1 THEN GetKey(obj, path[1])
    ELSE NodeAt(GetKey(obj, path[1]).kids, Tail(path))

LeafPathsOf(obj) == {p \in PathsOf(obj) : ~IsPlainObject(NodeAt(obj, p))}

RECURSIVE Dotted(_)
Dotted(path) == IF Len(path) = 1 THEN path[1] ELSE path[1] \o "." \o Dotted(Tail(path))

KeyPathStrings(obj) == {Dotted(p) : p \in PathsOf(obj)}

\* no key path is a container in one catalog and a leaf in the other
SameShape(a, b) ==
    \A p \in PathsOf(a) \cap PathsOf(b) :
        IsPlainObject(NodeAt(a, p)) = IsPlainObject(NodeAt(b, p))

\* the command logged the event for the language
Has(lang, ev) == \E i \in 1..Len(log[lang]) : log[lang][i] = ev

\* every occurrence of the first event is before every occurrence of the second
Precedes(lang, first, second) ==
    \A i, j \in 1..Len(log[lang]) :
        (log[lang][i] = first /\ log[lang][j] = second) => i < j

\* how often the command logged the event for the language
Count(lang, ev) == Cardinality({i \in 1..Len(log[lang]) : log[lang][i] = ev})

\* the event that starts the processing of a language in the running loop
Attempt == IF cmd.name = "translate" THEN "translate" ELSE "entry"

\* the language the running loop is at, "" outside the loop
Current ==
    IF frame.lang # "" THEN frame.lang
    ELSE IF pc \in {"translate", "batch"} THEN queue[idx]
    ELSE ""

BackupsOf(lang) == {b \in backups : b.lang = lang}

-----------------------------------------------------------------------------
(* C1: when the update of a language ends in failure (a load, backup,
   validation or write failure, or a failed post-validation), its catalog
   file has the content it had before the attempt.  A failed post-validation
   restores nothing, and a failed write is undone only from a backup file,
   so this is violated. *)
C1_FailedUpdateLeavesFileUnchanged ==
    \A l \in Langs :
        (results[l].set /\ (results[l].update = "failed" \/ results[l].post = "failed"))
            => files[l] = before[l]

(* C2: whenever an existing catalog file has been overwritten, the backup
   directory holds a snapshot of its content before the update, whatever the
   configuration.  With BACKUP_ENABLED unset createBackup does nothing, so
   this is violated. *)
C2_SnapshotBeforeEveryOverwrite ==
    \A l \in Langs :
        (Has(l, "write") /\ before[l].st # "absent")
            => \E b \in backups : b.lang = l /\ b.data = before[l]

(* C3 as stated: the pre-write validation is before the backup, the backup
   before the write, and a proposal that fails the validation has no backup
   made for it.  The code makes the backup first, so this is violated. *)
C3_ValidationBeforeBackup ==
    \A l \in Langs :
        /\ Precedes(l, "validated", "backup")
        /\ Precedes(l, "backup", "write")
        /\ (Has(l, "rejected") => ~Has(l, "backup"))

(* C3 amended: the backup, when one is made, is before the pre-write
   validation, and the validation is before the write; a complete catalog
   reaches the write only if its key paths are the reference's; a proposal
   the validation rejected is never written and its catalog file keeps the
   content it had, though a backup file may have been made for it. *)
C3_BackupThenValidationThenWrite ==
    \A l \in Langs :
        /\ Precedes(l, "backup", "validated")
        /\ Precedes(l, "backup", "rejected")
        /\ Precedes(l, "validated", "write")
        /\ Precedes(l, "validated", "write_failed")
        /\ ((Has(l, "write") \/ Has(l, "write_failed")) => Has(l, "validated"))
        /\ ((pc = "u_write" /\ frame.lang = l /\ frame.mode = "complete")
              => validateJsonStructure(ReferenceCatalog, frame.updated).isValid)
        /\ (Has(l, "rejected")
              => /\ ~Has(l, "write")
                 /\ ~Has(l, "write_failed")
                 /\ files[l] = before[l])

\* a proposal rejected by the validation after a backup file was made for it
C3_Witness ==
    \E l \in Langs :
        /\ results[l].set
        /\ results[l].error = "validation"
        /\ Has(l, "backup")
        /\ BackupExists(results[l].backupPath)
        /\ files[l] = before[l]

(* C4: when the post-validation of a written catalog fails, the file is
   restored to the content it had and the language is reported as failed.
   performPostValidationImmediate only logs, so this is violated. *)
C4_PostValidationFailureRestores ==
    \A l \in Langs :
        results[l].post = "failed"
            => /\ files[l] = before[l]
               /\ (report.printed => report.failedCount > 0)

(* C5: when the translation of a language fails (request error, unparsable
   response, key paths differing from the reference) or its entry of a batch
   is a failed translation, the updater is not entered for it: no load, no
   backup, no write, no backup file, and its catalog file is unchanged. *)
C5_FailedTranslationTouchesNothing ==
    \A l \in Langs :
        (results[l].set /\ ~results[l].translated)
            => /\ ~Has(l, "load")
               /\ ~Has(l, "backup")
               /\ ~Has(l, "write")
               /\ ~Has(l, "write_failed")
               /\ ~\E b \in backups : b.lang = l
               /\ files[l] = before[l]
               /\ results[l].backupPath = NoPath

\* a language whose translation failed in a run with backups on and an
\* existing catalog, after another language was updated
C5_Witness ==
    \E l, m \in Langs :
        /\ cmd.name = "translate"
        /\ cfg.backupEnabled
        /\ ~cfg.dryRun
        /\ results[l].set
        /\ ~results[l].translated
        /\ Has(l, "translate")
        /\ before[l].st = "json"
        /\ Has(m, "write")

-----------------------------------------------------------------------------
(* C6: base-wins (overwriteExisting = false): every leaf of the existing
   catalog keeps its value in the merged catalog, and {a:'old'} merged with
   {a:'new', b:'added'} gives {a:'old', b:'added'}.  The code merges the
   other way round, so this is violated. *)
C6_BaseWinsKeepsExistingLeaves ==
    (mResult.done /\ ~mOverwrite) =>
        /\ \A p \in LeafPathsOf(mBase) :
              /\ p \in PathsOf(mResult.cat)
              /\ NodeAt(mResult.cat, p) = NodeAt(mBase, p)
        /\ (mBase = <<Entry("a", Str(<<"old">>))>>
              /\ mIncoming = <<Entry("a", Str(<<"new">>)), Entry("b", Str(<<"added">>))>>)
           => mResult.cat = <<Entry("a", Str(<<"old">>)), Entry("b", Str(<<"added">>))>>

(* C7: incoming-wins (overwriteExisting = true): on catalogs of the same
   shape every leaf of the incoming translations is in the merged catalog
   with the incoming value, leaves only the existing catalog has are kept,
   and {a:'old'} merged with {a:'new', b:'added'} gives {a:'new',
   b:'added'}.  The code keeps the existing leaves, so this is violated. *)
C7_IncomingWinsOverwritesLeaves ==
    (mResult.done /\ mOverwrite /\ SameShape(mBase, mIncoming)) =>
        /\ \A p \in LeafPathsOf(mIncoming) :
              /\ p \in PathsOf(mResult.cat)
              /\ NodeAt(mResult.cat, p) = NodeAt(mIncoming, p)
        /\ \A p \in LeafPathsOf(mBase) \ PathsOf(mIncoming) :
              /\ p \in PathsOf(mResult.cat)
              /\ NodeAt(mResult.cat, p) = NodeAt(mBase, p)
        /\ (mBase = <<Entry("a", Str(<<"old">>))>>
              /\ mIncoming = <<Entry("a", Str(<<"new">>)), Entry("b", Str(<<"added">>))>>)
           => mResult.cat = <<Entry("a", Str(<<"new">>)), Entry("b", Str(<<"added">>))>>

(* C8 as stated: after a successful update, in partial or complete mode,
   every key path the catalog file had is still in it.  Complete mode writes
   the translated catalog alone, so this is violated. *)
C8_ExistingKeysNeverDropped ==
    \A l \in Langs :
        (results[l].set /\ results[l].update = "ok" /\ before[l].st = "json")
            => PathsOf(before[l].cat) \subseteq PathsOf(files[l].cat)

(* C8 amended: after a successful partial update every key path the catalog
   file had is still in it; after a successful complete update the file's
   key paths are exactly the reference's, so a key path the file had is
   still in it only if the reference has it. *)
C8_KeysKeptByMergeOnly ==
    \A l \in Langs :
        (results[l].set /\ results[l].update = "ok" /\ Has(l, "write"))
            => IF cmd.name = "batchUpdate"
               THEN PathsOf(before[l].cat) \subseteq PathsOf(files[l].cat)
               ELSE KeyPathStrings(files[l].cat) = KeyPathStrings(ReferenceCatalog)

\* a partial update that added the menu section and kept the key the
\* reference lacks
C8_Witness ==
    \E l \in Langs :
        /\ cmd.name = "batchUpdate"
        /\ results[l].update = "ok"
        /\ Has(l, "write")
        /\ before[l] = JsonFile(PartialTarget)
        /\ HasKey(files[l].cat, "legacy")
        /\ HasKey(files[l].cat, "menu")

(* C11: when a key path is a container in one operand of the merge and a
   leaf in the other, the merged catalog has at that path the kind of the
   incoming operand under incoming-wins (overwriteExisting) and the kind of
   the existing catalog under base-wins.  deepMerge keeps the container
   whichever operand has it, so this is violated. *)
C11_ShapeOfWinningOperand ==
    mResult.done =>
        \A p \in PathsOf(mBase) \cap PathsOf(mIncoming) :
            (IsPlainObject(NodeAt(mBase, p)) # IsPlainObject(NodeAt(mIncoming, p)))
                => /\ p \in PathsOf(mResult.cat)
                   /\ IsPlainObject(NodeAt(mResult.cat, p))
                        = IsPlainObject(NodeAt(IF mOverwrite THEN mIncoming ELSE mBase, p))

(* C12: under incoming-wins, merging the same translations into the merged
   catalog once more gives the merged catalog again. *)
C12_MergeIdempotent ==
    (mAgain.done /\ mOverwrite) => mAgain.cat = mResult.cat

\* a second merge after a first one that changed the catalog, with a key
\* that is a leaf in one operand and a container in the other
C12_Witness ==
    /\ mAgain.done
    /\ mOverwrite
    /\ mResult.cat # mBase
    /\ mResult.cat # mIncoming
    /\ ~SameShape(mBase, mIncoming)
    /\ mAgain.cat = mResult.cat

(* C13: under incoming-wins, when the translations have every key path of
   the existing catalog, the merged catalog has every key path of both, and
   compare against a reference holding the key paths of both reports no
   missing key. *)
C13_MergeCoversBothOperands ==
    (mDiff.done /\ mOverwrite /\ PathsOf(mBase) \subseteq PathsOf(mIncoming)) =>
        /\ PathsOf(mBase) \cup PathsOf(mIncoming) \subseteq PathsOf(mResult.cat)
        /\ KeyPathStrings(mDiff.ref) = KeyPathStrings(mBase) \cup KeyPathStrings(mIncoming)
        /\ mDiff.r.missingCount = 0
        /\ mDiff.r.missingKeys = <<>>

\* translations that cover a non-empty catalog and add a nested key to it
C13_Witness ==
    /\ mDiff.done
    /\ mOverwrite
    /\ mBase # <<>>
    /\ PathsOf(mBase) \subseteq PathsOf(mIncoming)
    /\ <<"b", "a">> \in PathsOf(mIncoming) \ PathsOf(mBase)
    /\ mDiff.r.missingCount = 0
    /\ mDiff.r.totalReferenceKeys = 4

(* C14: with the reference catalog in place, updateCompleteTranslations
   reaches its write only with a content that has every key path of the
   reference, a catalog file it wrote has every key path of the reference,
   and a proposed catalog that lacks one is rejected by the validation: the
   update fails and the target file is neither written nor changed. *)
C14_WriteOnlyWithEveryReferenceKey ==
    LET referenceKeys == KeyPathStrings(ReferenceCatalog)
    IN \A l \in Langs :
        /\ (pc = "u_write" /\ frame.lang = l /\ frame.mode = "complete")
              => referenceKeys \subseteq KeyPathStrings(frame.updated)
        /\ (Has(l, "write") /\ cmd.name # "batchUpdate")
              => /\ files[l].st = "json"
                 /\ referenceKeys \subseteq KeyPathStrings(files[l].cat)
        /\ (frame.lang = l /\ frame.mode = "complete"
               /\ ~(referenceKeys \subseteq KeyPathStrings(frame.proposed)))
              => /\ pc \in {"u_load", "u_backup", "u_validate", "u_catch"}
                 /\ ~Has(l, "validated")
                 /\ ~Has(l, "write")
                 /\ ~Has(l, "write_failed")
                 /\ files[l] = before[l]
                 /\ (Has(l, "rejected") => pc = "u_catch" /\ frame.error = "validation")
        /\ (results[l].set /\ results[l].error = "validation")
              => results[l].update = "failed"

\* a complete catalog without the menu section, rejected before the write of
\* an existing file
C14_Witness ==
    /\ pc = "u_catch"
    /\ frame.mode = "complete"
    /\ frame.proposed = MissingKey
    /\ frame.error = "validation"
    /\ Has(frame.lang, "rejected")
    /\ cfg.backupEnabled
    /\ ~cfg.dryRun
    /\ files[frame.lang].st = "json"

(* C15: in the translate command a language whose catalog file has every
   key path of the reference is skipped, extra keys or not: it is not in the
   translation loop, no request, backup or write is made for it, it has no
   result entry and its file is unchanged; when every language is skipped
   the command ends without translating or reporting. *)
C15_NothingMissingIsSkipped ==
    LET complete(l) == /\ before[l].st = "json"
                       /\ KeyPathStrings(ReferenceCatalog)
                             \subseteq KeyPathStrings(before[l].cat)
    IN (cmd.name = "translate" /\ pc # "start") =>
          /\ \A l \in Langs :
                complete(l) => /\ l \notin SeqToSet(queue)
                               /\ log[l] = <<>>
                               /\ ~results[l].set
                               /\ files[l] = before[l]
                               /\ ~\E b \in backups : b.lang = l
          /\ (\A l \in Langs : complete(l))
                => /\ queue = <<>>
                   /\ pc = "done"
                   /\ ~report.printed
                   /\ backups = {}

\* a finished translate command that skipped a complete catalog with an
\* extra key and wrote the other language
C15_Witness ==
    \E l, m \in Langs :
        /\ cmd.name = "translate"
        /\ pc = "done"
        /\ before[l] = JsonFile(ExtraTarget)
        /\ queue = <<m>>
        /\ Has(m, "write")
        /\ files[l] = before[l]

\* C16, states: once the loop is over every language of the list has been
\* attempted once and has its result entry, whatever the others did; while
\* it runs the languages attempted are a prefix of the list
C16_EveryLanguageOnce ==
    /\ \A l \in Langs :
          /\ Count(l, Attempt) <= 1
          /\ (results[l].set => Count(l, Attempt) = 1 /\ l \in SeqToSet(queue))
    /\ \A i, j \in 1..Len(queue) :
          (i < j /\ Count(queue[j], Attempt) = 1) => results[queue[i]].set
    /\ (pc \in {"postvalidate", "report"} \/ (pc = "done" /\ queue # <<>>))
          => \A l \in SeqToSet(queue) : results[l].set /\ Count(l, Attempt) = 1

\* C16, steps: a step of the loop touches the file, the backups, the events
\* and the result entry of the language the loop is at and of no other
C16_OnlyCurrentLanguage ==
    \A l \in Langs :
        (l # Current)
            => /\ files'[l] = files[l]
               /\ log'[l] = log[l]
               /\ {b \in backups' : b.lang = l} = BackupsOf(l)
               /\ (pc # "postvalidate" => results'[l] = results[l])

(* C16: in a batch every language of the list is attempted exactly once, in
   list order, and gets exactly one result entry, whether or not another
   language failed; the processing of a language changes the file, backups
   and result of that language only. *)
C16_BatchIsolation == []C16_EveryLanguageOnce /\ [][C16_OnlyCurrentLanguage]_vars

\* the first language failed and the second was translated and written
C16_Witness ==
    \E l, m \in Langs :
        /\ queue = <<l, m>>
        /\ pc = "done"
        /\ results[l].set
        /\ (~results[l].translated \/ results[l].update = "failed")
        /\ results[m].update = "ok"
        /\ Has(m, "write")
        /\ files[m] # before[m]

(* C17 as stated: in the translate command, when the request for a language
   starts, every language before it in the list is in a terminal state: it
   failed, or it was written and its post-write validation is finished.  The
   post-write validation runs after the whole loop, so this is violated. *)
C17_TerminalBeforeNextRequest ==
    (cmd.name = "translate" /\ ~cfg.skipValidation /\ ~cfg.dryRun) =>
        \A i, j \in 1..Len(queue) :
            (i < j /\ Has(queue[j], "translate"))
                => /\ results[queue[i]].set
                   /\ (results[queue[i]].update = "ok" => results[queue[i]].post # "none")

(* C17 amended: the translation and the update of a language (its write, or
   its failure and restore) are finished before the request for the next
   language of the list starts; the post-write validation is a later phase
   that starts after the update of the last language has returned and
   covers every language written. *)
C17_UpdateBeforeNextRequest ==
    cmd.name = "translate" =>
        /\ \A i, j \in 1..Len(queue) :
              (i < j /\ Has(queue[j], "translate"))
                  => /\ results[queue[i]].set
                     /\ frame.lang # queue[i]
        /\ \A l \in Langs :
              (results[l].post # "none" \/ pc \in {"postvalidate", "report"})
                  => /\ frame = NoFrame
                     /\ \A m \in SeqToSet(queue) : results[m].set
        /\ (pc = "report" /\ ~cfg.skipValidation /\ ~cfg.dryRun)
              => \A l \in Langs : results[l].update = "ok" => results[l].post # "none"

\* the second language is being written while the first, already written,
\* has not been validated
C17_Witness ==
    \E l, m \in Langs :
        /\ cmd.name = "translate"
        /\ ~cfg.skipValidation
        /\ queue = <<l, m>>
        /\ results[l].update = "ok"
        /\ Has(l, "write")
        /\ results[l].post = "none"
        /\ pc = "u_write"
        /\ frame.lang = m

(* C18: when the restore of a failed update fails (the backup file is
   missing or cannot be copied back), the result the update returns reports
   the restore failure.  The catch block only logs it and returns the first
   error, so this is violated. *)
C18_RestoreFailureReported ==
    \A l \in Langs :
        (results[l].set /\ Has(l, "restore_failed"))
            => /\ results[l].update = "failed"
               /\ results[l].error = "restore"

(* C19: a backup, once made, is never changed or replaced, and every
   update that makes a backup adds one entry to the backup directory.  The
   name of a backup has the time to the second, so an update of the same
   language within the same second replaces it: this is violated. *)
C19_BackupsAreSnapshots ==
    [][/\ \A b \in backups : b \in backups'
       /\ (pc = "u_backup" /\ Has(frame.lang, "backup")')
             => Cardinality(backups') = Cardinality(backups) + 1]_vars

\* the placeholder tokens of a text
Tokens(text) == SeqToSet(MatchPlaceholders(text))

(* C20: validatePlaceholderConsistency returns true exactly when the
   placeholder tokens of the translated text are those of the reference
   text, and then records nothing; otherwise it returns false and records
   one error, which names a reference token the translation lacks when
   there is one, and else a token of the translation the reference does not
   have. *)
C20_PlaceholderSetsCompared ==
    pResult.done =>
        LET missing == Tokens(pRef) \ Tokens(pTrans)
            extra == Tokens(pTrans) \ Tokens(pRef)
            r == pResult.r
        IN /\ r.result = (Tokens(pRef) = Tokens(pTrans))
           /\ (r.result => r.errors = <<>>)
           /\ (~r.result => Len(r.errors) = 1)
           /\ (missing # {}
                 => /\ ~r.result
                    /\ r.errors[1].message = "Missing placeholder"
                    /\ r.errors[1].placeholder \in missing)
           /\ (missing = {} /\ extra # {}
                 => /\ ~r.result
                    /\ r.errors[1].message = "Extra placeholder"
                    /\ r.errors[1].placeholder \in extra)

\* a translation with every token of the reference and one more
C20_Witness ==
    /\ pResult.done
    /\ Tokens(pRef) = {<<"{", "name", "}">>}
    /\ Tokens(pTrans) = {<<"{", "name", "}">>, <<"{", "app", "}">>}
    /\ ~pResult.r.result
    /\ pResult.r.errors[1].message = "Extra placeholder"

\* the tokens the recorded errors name under one message
Reported(message) ==
    {pResult.r.errors[i].placeholder :
        i \in {j \in DOMAIN pResult.r.errors : pResult.r.errors[j].message = message}}

(* C21: when the texts differ, the placeholder check reports every token of
   the reference that the translation lacks as missing and every token of
   the translation that the reference lacks as extra, and returns false. *)
C21_EveryDifferenceReported ==
    pResult.done =>
        LET missing == Tokens(pRef) \ Tokens(pTrans)
            extra == Tokens(pTrans) \ Tokens(pRef)
        IN /\ Reported("Missing placeholder") = missing
           /\ Reported("Extra placeholder") = extra
           /\ pResult.r.result = (missing = {} /\ extra = {})

\* the paths the errors (or warnings) of the last result name under one message
PathsUnder(items, message) ==
    {items[i].path : i \in {j \in DOMAIN items : items[j].message = message}}

\* the key paths both catalogs have
CommonPaths(a, b) == PathsOf(a) \cap PathsOf(b)

(* C22: the structural comparison of two catalogs emits a type-mismatch
   error at a key path both have exactly when one side is a container
   (object) and the other a leaf (string, number, boolean, array or null);
   two leaves, of whatever types, give no error. *)
C22_MismatchIsContainerAgainstLeaf ==
    (vResult.op = "structural" /\ vRef.st = "json" /\ vTarget.st = "json") =>
        PathsUnder(vResult.r.errors, "Type mismatch")
          = {Dotted(p) : p \in {q \in CommonPaths(vRef.cat, vTarget.cat) :
                                    IsPlainObject(NodeAt(vRef.cat, q))
                                      # IsPlainObject(NodeAt(vTarget.cat, q))}}

\* the key paths one catalog has and the other lacks, below a parent both
\* have as containers (or at the root)
TopMost(a, b) ==
    {p \in PathsOf(a) \ PathsOf(b) :
        Len(p) = 1 \/ SubSeq(p, 1, Len(p) - 1) \in PathsOf(b)}

(* C23: a validation result is valid exactly when it holds no error, after
   any sequence of validations on one Validator; warnings never make it
   invalid: when the target differs from the reference only by missing or
   extra key paths, the structural comparison returns isValid = true, with a
   warning for each key the target lacks and for each key only it has. *)
C23_ValidIffNoError ==
    /\ vResult.r.isValid = (vResult.r.errors = <<>>)
    /\ (vResult.op \in {"jsonFile", "structural", "integrity"}
          => vResult.r.errors = validator.errors)
    /\ (/\ vResult.op = "structural"
        /\ vRef.st = "json"
        /\ vTarget.st = "json"
        /\ \A p \in CommonPaths(vRef.cat, vTarget.cat) :
               NodeAt(vRef.cat, p).t = NodeAt(vTarget.cat, p).t)
          => /\ vResult.r.isValid
             /\ PathsUnder(vResult.r.warnings, "Missing key in target")
                  = {Dotted(p) : p \in TopMost(vRef.cat, vTarget.cat)}
             /\ PathsUnder(vResult.r.warnings, "Extra key in target")
                  = {Dotted(p) : p \in TopMost(vTarget.cat, vRef.cat)}
             /\ vResult.r.warningCount
                  = Cardinality(TopMost(vRef.cat, vTarget.cat))
                    + Cardinality(TopMost(vTarget.cat, vRef.cat))

\* the second validation on the Validator compares a target with one key
\* missing and one key extra: two warnings, and valid
C23_Witness ==
    /\ vCalls = 2
    /\ vResult.op = "structural"
    /\ vRef = JsonFile(<<Entry("menu", Obj(<<Entry("home", Str(<<"X">>))>>))>>)
    /\ vTarget = JsonFile(<<Entry("menu", Obj(<<>>)), Entry("common", Str(<<"X">>))>>)
    /\ vResult.r.isValid
    /\ vResult.r.warningCount = 2

\* the key paths of a catalog that hold null
NullPaths(cat) == {p \in PathsOf(cat) : NodeAt(cat, p).t = "null"}

(* C25: validateJsonFile returns a result (it raises nothing): isValid =
   false with at least one error when the file is missing, empty, not
   parsable, or has a root that is not an object; for a catalog, one error
   for each key path that holds null, naming the path, and no other error,
   so that a catalog without null values is valid whatever its warnings. *)
C25_JsonFileVerdict ==
    vResult.op = "jsonFile" =>
        LET file == IF vResult.file = "reference" THEN vRef ELSE vTarget
            r == vResult.r
        IN /\ (file.st # "json" => ~r.isValid /\ r.errorCount = 1)
           /\ (file.st = "json" =>
                 /\ PathsUnder(r.errors, "Null or undefined value")
                      = {Dotted(p) : p \in NullPaths(file.cat)}
                 /\ r.errorCount = Cardinality(NullPaths(file.cat))
                 /\ r.isValid = (NullPaths(file.cat) = {}))

\* a catalog with an array leaf and no "common" section: warnings, and valid
C25_Witness ==
    /\ vResult.op = "jsonFile"
    /\ vResult.file = "target"
    /\ vTarget = JsonFile(<<Entry("menu", Obj(<<Entry("home", ArrayValue)>>))>>)
    /\ vResult.r.isValid
    /\ vResult.r.hasWarnings
    /\ "Array found in localization file"
          \in {vResult.r.warnings[i].message : i \in DOMAIN vResult.r.warnings}

\* the place of a key in the Set extractKeys returned, 0 when it is not there
PlaceOf(keys, key) ==
    IF \E i \in DOMAIN keys : keys[i] = key
    THEN CHOOSE i \in DOMAIN keys : keys[i] = key
    ELSE 0

(* C24: extractKeys returns exactly the dot-joined key paths of every node
   of the catalog, containers and leaves, each once and each parent before
   its children; an array or a null value is one key path and nothing below
   it is recorded. *)
C24_ExtractKeysPreOrder ==
    cResult.done =>
        LET keys == cResult.keys
        IN /\ SeqToSet(keys) = KeyPathStrings(cRef)
           /\ Len(keys) = Cardinality(KeyPathStrings(cRef))
           /\ \A p \in PathsOf(cRef) :
                  Len(p) > 1 =>
                      /\ PlaceOf(keys, Dotted(SubSeq(p, 1, Len(p) - 1))) > 0
                      /\ PlaceOf(keys, Dotted(SubSeq(p, 1, Len(p) - 1)))
                           < PlaceOf(keys, Dotted(p))
           /\ \A p \in PathsOf(cRef) :
                  NodeAt(cRef, p).t \in {"array", "null"} =>
                      \A i \in DOMAIN NodeAt(cRef, p).kids :
                          PlaceOf(keys, JoinKey(Dotted(p), NodeAt(cRef, p).kids[i].k)) = 0

\* a nested object that holds an array, then a null value
C24_Witness ==
    /\ cResult.done
    /\ cRef = <<Entry("a", Obj(<<Entry("b", ArrayValue)>>)), Entry("c", NullValue)>>
    /\ cResult.keys = <<"a", "a.b", "c">>

(* C26: for the reference {menu: {home, settings}, common: {save, cancel}}
   and the target {menu: {home}}, compare returns missingCount = 3 and
   missingKeys contains 'menu.settings'. *)
C26_ThreeMissingKeys ==
    (/\ cResult.done
     /\ cRef = referenceData
     /\ cTarget = [exists |-> TRUE, cat |-> targetData])
        => /\ cResult.r.missingCount = 3
           /\ "menu.settings" \in SeqToSet(cResult.r.missingKeys)

\* the command runs in dry-run mode: DRY_RUN=true, or translate --dry-run
DryRunMode == cfg.dryRun \/ cfg.dryRunOption

(* C27: in dry-run mode the translate command changes no catalog file and
   no backup: nothing is written, no backup is created and nothing is
   restored, whether translations and updates succeed or fail. *)
C27_DryRunChangesNothing ==
    (cmd.name = "translate" /\ DryRunMode) =>
        /\ files = before
        /\ backups = {}
        /\ \A l \in Langs :
               /\ ~Has(l, "backup")
               /\ ~Has(l, "write")
               /\ ~Has(l, "write_failed")
               /\ ~Has(l, "restore")
               /\ ~Has(l, "restore_failed")

(* C28: when the translate request for a language starts, the catalog of
   every earlier language of the batch whose translation and update
   succeeded is written and compares with missingCount = 0 against the
   reference; after the run is stopped there and started again, no new
   translate request is made for a language written before the stop. *)
C28_InterruptionSafe ==
    /\ pc = "translate" =>
           \A i \in 1..(idx - 1) :
               LET l == queue[i]
               IN (results[l].translated /\ results[l].update = "ok")
                      => /\ Has(l, "write")
                         /\ files[l].st = "json"
                         /\ compare(ReferenceCatalog,
                                    [exists |-> TRUE, cat |-> files[l].cat]).missingCount = 0
    /\ \A l \in Langs :
           \A i, j, k \in DOMAIN log[l] :
               (i < j /\ j < k /\ log[l][i] = "write" /\ log[l][j] = "restart")
                   => log[l][k] # "translate"

\* the first language was written, the run was stopped at the request for
\* the second, and the second run is at that request again
C28_Witness ==
    /\ runs = 2
    /\ pc = "translate"
    /\ queue = <<LanguageCodes[2]>>
    /\ Has(LanguageCodes[1], "write")
    /\ Has(LanguageCodes[1], "restart")
    /\ ~Has(LanguageCodes[2], "write")

\* the request attempts made so far
Attempts == Len(api.responses)

(* C29: makeApiRequest makes at most maxRetries + 1 request attempts; it
   returns the first response that is not empty (trimmed), an empty
   response counting as a failed attempt; before retry number k + 1 (k from
   0) it waits min(1000 * 2^k, 10000) ms; after the last failed attempt it
   raises the error of that attempt; and once a response was returned no
   further request is made, whether it parses and matches the reference
   or not. *)
C29_BoundedRetries ==
    /\ Attempts <= api.maxRetries + 1
    /\ api.retryCount <= api.maxRetries
    /\ Len(api.slept) = api.retryCount
    /\ \A k \in 0..(Len(api.slept) - 1) :
           api.slept[k + 1] = (IF 1000 * 2^k < 10000 THEN 1000 * 2^k ELSE 10000)
    /\ \A i \in 1..(Attempts - 1) :
           \/ api.responses[i].kind = "throw"
           \/ api.responses[i].text = NoText
    /\ (api.pc = "request" => Attempts = api.retryCount)
    /\ (api.pc = "sleep" => Attempts = api.retryCount + 1)
    /\ (api.pc = "returned" \/ (api.pc = "done" /\ api.raised = "")) =>
           /\ Attempts >= 1
           /\ Attempts = api.retryCount + 1
           /\ api.responses[Attempts].kind = "text"
           /\ api.responses[Attempts].text # NoText
           /\ api.returned = Trim(api.responses[Attempts].text)
    /\ (api.raised # "") =>
           /\ Attempts = api.maxRetries + 1
           /\ api.raised = (IF api.responses[Attempts].kind = "throw"
                             THEN api.responses[Attempts].error
                             ELSE "empty")
           /\ api.responses[Attempts].kind = "text"
                 => api.responses[Attempts].text = NoText
           /\ ~api.success

\* two failed attempts, one of them an empty response, then a text that
\* parses but lacks a key of the reference: returned, not retried
C29_Witness ==
    /\ api.pc = "done"
    /\ api.maxRetries = 3
    /\ Attempts = 3
    /\ api.responses[1].kind = "throw"
    /\ api.responses[2] = [kind |-> "text", error |-> "", text |-> NoText]
    /\ api.returned.content = [kind |-> "json", cat |-> MissingKey]
    /\ api.slept = <<1000, 2000>>
    /\ ~api.success

\* the languages whose changes were written and passed the validation of the
\* written file
Completed ==
    {l \in Langs : /\ results[l].set
                   /\ results[l].translated
                   /\ results[l].update = "ok"
                   /\ Has(l, "write")
                   /\ results[l].post = "passed"}

(* C30: the final report of the translate command counts a language as
   successful only if its changes were written to its catalog and validated;
   a language whose translation succeeded but whose update failed, or whose
   written file failed the validation, is counted as failed. *)
C30_ReportCountsCompleted ==
    (cmd.name = "translate" /\ report.printed /\ ~cfg.skipValidation /\ ~cfg.dryRun) =>
        /\ report.successCount = Cardinality(Completed)
        /\ report.failedCount
             = Cardinality({l \in Langs : results[l].set /\ l \notin Completed})

(* C9: compare returns missingKeys = the reference key paths (containers and
   leaves) absent from the target, extraKeys = the target key paths absent
   from the reference, missingCount and extraCount their sizes; a catalog
   compared with itself has neither. *)
C9_CompareIsSetDifference ==
    cResult.done =>
        LET target == IF cTarget.exists THEN cTarget.cat ELSE <<>>
            refPaths == KeyPathStrings(cRef)
            tgtPaths == KeyPathStrings(target)
            r == cResult.r
        IN /\ SeqToSet(r.missingKeys) = refPaths \ tgtPaths
           /\ SeqToSet(r.extraKeys) = tgtPaths \ refPaths
           /\ r.missingCount = Cardinality(refPaths \ tgtPaths)
           /\ r.extraCount = Cardinality(tgtPaths \ refPaths)
           /\ (cRef = target => r.missingKeys = <<>> /\ r.extraKeys = <<>>)

\* a comparison that found a missing container with its leaf and an extra key
C9_Witness ==
    /\ cResult.done
    /\ cTarget.exists
    /\ "a" \in SeqToSet(cResult.r.missingKeys)
    /\ "a.b" \in SeqToSet(cResult.r.missingKeys)
    /\ cResult.r.extraKeys = <<"c">>

(* C10: completionPercentage = round(100 * (refCount - missingCount) /
   refCount) when refCount > 0, is an integer in 0..100, and is 100 when the
   reference has no key path.  The code computes 0 / 0 = NaN for the empty
   reference, so this is violated. *)
C10_CompletionPercentage ==
    cResult.done =>
        LET n == cResult.r.totalReferenceKeys
            m == cResult.r.missingCount
            pct == cResult.r.completionPercentage
            d == 100 * (n - m) - pct.val * n
        IN /\ ~pct.nan
           /\ pct.val \in 0..100
           /\ (n = 0 => pct.val = 100)
           /\ (n > 0 => (2 * d <= n /\ -2 * d < n))

====
